---- MODULE Spec2Model ----
(***************************************************************************)
(* LogPress core: the segmenter (src/lib/segment.c), the budget packer     *)
(* (src/lib/budget.c) and the dedup table (src/lib/dedup.c).               *)
(*                                                                         *)
(* A C string is a sequence of one-character strings; a line ordinal is    *)
(* zero-based as in the C code, so line i of an array is lines[i + 1].     *)
(***************************************************************************)
EXTENDS Integers, Sequences, FiniteSets, TLC

VARIABLES
    lines,          \* segmenter input: the line array
    mode,           \* segmenter input: the mode profile, or NULL
    segs,           \* segmenter output: the returned segment array
    seg_pc,         \* "input" before lp_segment_detect, "done" after
    bsegs,          \* packer input: the scored segment array
    budget_tokens,  \* packer input
    reserve_tokens, \* packer input
    result,         \* packer output: lp_budget_result
    cand_order,     \* the order qsort left the Phase 2 candidates in
    pack_pc,        \* "input" before lp_budget_pack, "done" after
    table,          \* lp_dedup_table: buckets, capacity, count
    ninserts,       \* number of lp_dedup_insert calls so far
    last_line,      \* the line given to the latest lp_dedup_insert
    feed,           \* the input of the dedup run: strip patterns, lines fed so far
    freq,           \* lp_dedup_sorted: whether it has run, and the array it returned
    normcall,       \* lp_normalize_line calls: line, strip_patterns, results
    detect,         \* lp_mode_detect call: first_lines, modes, the name returned
    fixm,           \* lp_fix_match_all call: error text, fixes, threshold, matches
    digest,         \* output_text: whether it has run, and the segment blocks it printed
    fatecall,       \* lp_line_fate call: line, mode, the fate returned
    tokcall,        \* token estimator calls: the lines, and the estimates returned
    lcscall         \* lcs_length calls: a, b, and the lengths returned

vars == <<lines, mode, segs, seg_pc, bsegs, budget_tokens, reserve_tokens,
          result, cand_order, pack_pc, table, ninserts, last_line, feed, freq,
          normcall, detect, fixm, digest, fatecall, tokcall, lcscall>>

segVars == <<lines, mode, segs, seg_pc>>
packVars == <<bsegs, budget_tokens, reserve_tokens, result, cand_order, pack_pc>>
dedupVars == <<table, ninserts, last_line, feed, freq>>
\* The variables of the functions that are called on their own, and of the
\* text renderer.
pureVars == <<fatecall, tokcall, lcscall>>
callVars == <<normcall, detect, fixm, digest, pureVars>>

\* A NULL struct lp_mode pointer: every test on it answers "no pattern".
NULL ==
    [is_null |-> TRUE, phase_markers |-> <<>>, block_triggers |-> <<>>,
     boilerplate_patterns |-> <<>>, error_patterns |-> <<>>,
     warning_patterns |-> <<>>]

(***************************************************************************)
(* <ctype.h> and the string helpers of util.c                              *)
(***************************************************************************)
Uppers == <<"A", "B", "C", "D", "E", "F", "G", "H", "I", "J", "K", "L", "M",
            "N", "O", "P", "Q", "R", "S", "T", "U", "V", "W", "X", "Y", "Z">>
Lowers == <<"a", "b", "c", "d", "e", "f", "g", "h", "i", "j", "k", "l", "m",
            "n", "o", "p", "q", "r", "s", "t", "u", "v", "w", "x", "y", "z">>
Digits == {"0", "1", "2", "3", "4", "5", "6", "7", "8", "9"}

isspace(c) == c \in {" ", "\t", "\n", "\r", "\f"}

isdigit(c) == c \in Digits

tolower(c) ==
    IF \E k \in 1..Len(Uppers) : Uppers[k] = c
    THEN Lowers[CHOOSE k \in 1..Len(Uppers) : Uppers[k] = c]
    ELSE c

\* strstr(haystack, needle) != NULL
lp_str_contains(haystack, needle) ==
    \E i \in 1..(Len(haystack) - Len(needle) + 1) :
        \A j \in 1..Len(needle) : haystack[i + j - 1] = needle[j]

lp_str_contains_ci(haystack, needle) ==
    IF Len(needle) > Len(haystack) THEN FALSE
    ELSE \E i \in 0..(Len(haystack) - Len(needle)) :
            \A j \in 0..(Len(needle) - 1) :
                tolower(haystack[i + j + 1]) = tolower(needle[j + 1])

(***************************************************************************)
(* token.c                                                                 *)
(***************************************************************************)
\* An estimate whose content count takes every character.
lp_estimate_tokens_counts_all(text) ==
    IF Len(text) = 0 THEN 0
    ELSE LET base == (Len(text) + 3) \div 4
             content == (Len(text) + 3) \div 4
         IN  (content * 7 + base * 3 + 5) \div 10

\* Lines 7-19.
lp_estimate_tokens(text) ==
    IF Len(text) = 0 THEN 0
    ELSE LET non_ws == Cardinality({i \in 1..Len(text) : ~isspace(text[i])})
             base == (Len(text) + 3) \div 4
             content == (non_ws + 3) \div 4
         IN  (content * 7 + base * 3 + 5) \div 10

(***************************************************************************)
(* segment.h: lp_seg_type, in enumeration order                            *)
(***************************************************************************)
LP_SEG_ERROR == 0
LP_SEG_WARNING == 1
LP_SEG_INFO == 2
LP_SEG_DATA == 3
LP_SEG_PHASE == 4
LP_SEG_BUILD_PROGRESS == 5
LP_SEG_BOILERPLATE == 6
LP_SEG_NORMAL == 7

(***************************************************************************)
(* segment.c: line predicates                                              *)
(***************************************************************************)
RECURSIVE IndentFrom(_, _)
IndentFrom(line, k) ==
    IF k > Len(line) THEN 0
    ELSE IF line[k] = " " THEN 1 + IndentFrom(line, k + 1)
    ELSE IF line[k] = "\t" THEN 4 + IndentFrom(line, k + 1)
    ELSE 0

lp_indent_level(line) == IndentFrom(line, 1)

lp_is_blank(line) == \A k \in 1..Len(line) : isspace(line[k])

\* The character at C offset p (0-based); "" stands for the terminating NUL.
CharAt(line, p) == IF p < Len(line) THEN line[p + 1] ELSE ""

RECURSIVE SkipSpace(_, _)
SkipSpace(line, p) ==
    IF isspace(CharAt(line, p)) THEN SkipSpace(line, p + 1) ELSE p

RECURSIVE SkipDigits(_, _)
SkipDigits(line, p) ==
    IF isdigit(CharAt(line, p)) THEN SkipDigits(line, p + 1) ELSE p

lp_is_build_progress(line) ==
    LET p0 == SkipSpace(line, 0)
        p1 == SkipDigits(line, p0 + 1)
        p2 == SkipDigits(line, p1 + 1)
    IN  /\ CharAt(line, p0) = "["
        /\ isdigit(CharAt(line, p0 + 1))
        /\ CharAt(line, p1) = "/"
        /\ isdigit(CharAt(line, p1 + 1))
        /\ CharAt(line, p2) = "]"

\* ncols of one sampled line: the number of non-blank runs that follow a
\* space/tab run which itself does not start at offset 0.
RECURSIVE TabCols(_, _, _)
TabCols(line, p, in_space) ==
    IF p >= Len(line) THEN 0
    ELSE IF line[p + 1] = " " \/ line[p + 1] = "\t"
         THEN TabCols(line, p + 1, in_space \/ p > 0)
         ELSE (IF in_space THEN 1 ELSE 0) + TabCols(line, p + 1, FALSE)

Max(S) == CHOOSE x \in S : \A y \in S : y <= x

lp_is_boilerplate(line, m) ==
    IF m.is_null THEN FALSE
    ELSE \E i \in 1..Len(m.boilerplate_patterns) :
            lp_str_contains(line, m.boilerplate_patterns[i])

GenericError(line) ==
    \/ lp_str_contains_ci(line, <<"e", "r", "r", "o", "r", ":">>)
    \/ lp_str_contains_ci(line, <<"f", "a", "t", "a", "l", ":">>)
    \/ lp_str_contains_ci(line, <<"F", "A", "I", "L", "E", "D">>)
    \/ lp_str_contains_ci(line, <<"u", "n", "d", "e", "f", "i", "n", "e", "d", " ",
                                  "r", "e", "f", "e", "r", "e", "n", "c", "e">>)

GenericWarning(line) ==
    lp_str_contains_ci(line, <<"w", "a", "r", "n", "i", "n", "g", ":">>)

classify_line(line, m) ==
    IF ~m.is_null /\ \E i \in 1..Len(m.error_patterns) :
                      lp_str_contains_ci(line, m.error_patterns[i])
    THEN LP_SEG_ERROR
    ELSE IF ~m.is_null /\ \E i \in 1..Len(m.warning_patterns) :
                           lp_str_contains_ci(line, m.warning_patterns[i])
    THEN LP_SEG_WARNING
    ELSE IF GenericError(line) THEN LP_SEG_ERROR
    ELSE IF GenericWarning(line) THEN LP_SEG_WARNING
    ELSE LP_SEG_NORMAL

is_phase_marker(line, m) ==
    IF m.is_null THEN FALSE
    ELSE \E i \in 1..Len(m.phase_markers) : lp_str_contains(line, m.phase_markers[i])

is_block_trigger(line, m) ==
    IF m.is_null THEN FALSE
    ELSE \E i \in 1..Len(m.block_triggers) :
            lp_str_contains_ci(line, m.block_triggers[i])

(***************************************************************************)
(* Segmenter inputs                                                        *)
(***************************************************************************)
MaxLines == 4

L_blank == <<>>
L_progress == <<"[", "1", "/", "3", "]", " ", "B", "u", "i", "l", "d", "i", "n", "g", " ", "a">>
L_error == <<"e", "r", "r", "o", "r", ":", " ", "b", "a", "d", " ", "t", "h", "i", "n", "g">>
L_warning == <<"w", "a", "r", "n", "i", "n", "g", ":", " ", "f", "o", "o">>
L_indented == <<" ", " ", " ", " ", "a", "t", " ", "x">>
L_phase == <<"=", "=", " ", "P", "h", "a", "s", "e">>
L_trigger == <<"T", "r", "a", "c", "e", "b", "a", "c", "k">>
L_config == <<"-", "-", " ", "c", "f", "g">>
L_progress_error == <<"[", "9", "/", "9", "]", " ", "e", "r", "r", "o", "r", ":", " ", "x">>
L_table == <<"a", " ", "b", " ", " ", "c">>

L_progress2 == <<"[", "2", "/", "3", "]", " ", "B", "u", "i", "l", "d", "i", "n", "g", " ", "b">>
L_progress3 == <<"[", "3", "/", "3", "]", " ", "B", "u", "i", "l", "d", "i", "n", "g", " ", "c">>

\* Two columns, two spaces or a tab apart.
L_cols_space == <<"a", "a", " ", " ", "b", "b">>
L_cols_tab == <<"c", "c", "\t", "d", "d">>

\* An ordinary line, a build-system wrapper line, a line of the memory summary.
L_note == <<"n", "o", "t", "e", " ", "x">>
L_fatal == <<"F", "A", "T", "A", "L", " ", "E", "R", "R", "O", "R", ":", " ", "x">>
L_flash == <<"F", "L", "A", "S", "H", ":", " ", "1">>

\* A phase-marker line that the line classification marks WARNING.
L_phase_warning == <<"=", "=", " ", "w", "a", "r", "n", "i", "n", "g", ":", " ", "x">>

\* The lines the line arrays of the model are drawn from.
LineVocab == {L_blank, L_progress, L_error, L_warning, L_indented, L_phase,
              L_trigger, L_config, L_progress_error, L_table}

\* The texts the token estimator is called on: letters and spaces.
MaxTokLen == 3
TokChars == {"a", " "}

RECURSIVE TokTextsUpTo(_)
TokTextsUpTo(n) ==
    IF n = 0 THEN {<<>>}
    ELSE LET shorter == TokTextsUpTo(n - 1)
         IN  shorter \cup {<<c>> \o t : c \in TokChars, t \in {u \in shorter : Len(u) = n - 1}}

TokTexts == TokTextsUpTo(MaxTokLen)

\* A loaded mode profile (the fields of struct lp_mode the segmenter reads).
BuildMode ==
    [is_null |-> FALSE,
     phase_markers |-> << <<"=", "=", " ">> >>,
     block_triggers |-> << <<"t", "r", "a", "c", "e", "b", "a", "c", "k">> >>,
     boilerplate_patterns |-> << <<"-", "-", " ">> >>,
     error_patterns |-> << <<"a", "t", " ", "x">> >>,
     warning_patterns |-> << <<"c", "f", "g">> >>]

PlainMode ==
    [is_null |-> FALSE,
     phase_markers |-> << <<"=", "=", " ">> >>,
     block_triggers |-> << <<"t", "r", "a", "c", "e", "b", "a", "c", "k">> >>,
     boilerplate_patterns |-> << <<"-", "-", " ">> >>,
     error_patterns |-> <<>>,
     warning_patterns |-> <<>>]

ModeSet == {NULL, PlainMode, BuildMode}

(***************************************************************************)
(* Every line predicate of segment.c is a function of the line text and    *)
(* the mode alone; the walk below reads each through this table, which     *)
(* holds its value for every line and mode of the model.                   *)
(***************************************************************************)
LineFacts(line, m) ==
    [blank |-> lp_is_blank(line),
     indent |-> lp_indent_level(line),
     phase |-> is_phase_marker(line, m),
     class |-> classify_line(line, m),
     progress |-> lp_is_build_progress(line),
     trigger |-> is_block_trigger(line, m),
     boilerplate |-> lp_is_boilerplate(line, m),
     tokens |-> lp_estimate_tokens(line),
     ncols |-> TabCols(line, 0, FALSE)]

FactTable ==
    [m \in ModeSet |->
        [l \in LineVocab \cup {L_progress2, L_progress3, L_cols_space, L_cols_tab,
                               L_note, L_fatal, L_flash, L_phase_warning}
               \cup TokTexts |->
            LineFacts(l, m)]]

Facts(line, m) == FactTable[m][line]

\* The batch estimate without the newline token of line 30.
RECURSIVE lp_estimate_tokens_lines_no_newline(_)
lp_estimate_tokens_lines_no_newline(ls) ==
    IF ls = <<>> THEN 0
    ELSE Facts(Head(ls), NULL).tokens + lp_estimate_tokens_lines_no_newline(Tail(ls))

RECURSIVE lp_estimate_tokens_lines(_)
lp_estimate_tokens_lines(ls) ==
    IF ls = <<>> THEN 0
    ELSE Facts(Head(ls), NULL).tokens + 1 + lp_estimate_tokens_lines(Tail(ls))

lp_is_tabular(ls) ==
    IF Len(ls) < 3 THEN FALSE
    ELSE LET sampled == 1..(IF Len(ls) < 5 THEN Len(ls) ELSE 5)
             max_cols == Max({0} \cup {Facts(ls[i], NULL).ncols : i \in sampled})
         IN  max_cols >= 2

(***************************************************************************)
(* segment.c: push_segment and lp_segment_detect                           *)
(***************************************************************************)
At(ls, i) == ls[i + 1]

\* lines[seg_start .. seg_end - 1]
Slice(ls, seg_start, seg_end) == SubSeq(ls, seg_start + 1, seg_end)

push_segment_end_exclusive(ls, seg_start, seg_end, seg_type) ==
    [start_line |-> seg_start,
     end_line |-> seg_end,
     type |-> seg_type,
     line_count |-> seg_end - seg_start,
     token_count |-> lp_estimate_tokens_lines(Slice(ls, seg_start, seg_end)),
     score |-> 0]

\* The segment push_segment appends for [seg_start, seg_end); seg_end > seg_start
\* at its only call site, so the seg_lines == 0 return is never taken.
push_segment(ls, seg_start, seg_end, seg_type) ==
    [start_line |-> seg_start,
     end_line |-> seg_end - 1,
     type |-> seg_type,
     line_count |-> seg_end - seg_start,
     token_count |-> lp_estimate_tokens_lines(Slice(ls, seg_start, seg_end)),
     score |-> 0]

\* The first-line type with the build-progress mark applied whatever the
\* type reached so far.
FirstLineType_progress_wins(line, m) ==
    LET phase_type == IF Facts(line, m).phase THEN LP_SEG_PHASE ELSE LP_SEG_NORMAL
        line_type == Facts(line, m).class
        t == IF line_type = LP_SEG_ERROR THEN LP_SEG_ERROR
             ELSE IF line_type > phase_type THEN line_type
             ELSE phase_type
    IN  IF Facts(line, m).progress
        THEN LP_SEG_BUILD_PROGRESS
        ELSE t

\* Lines 296-316: the type given to a segment by its first line.
FirstLineType(line, m) ==
    LET phase_type == IF Facts(line, m).phase THEN LP_SEG_PHASE ELSE LP_SEG_NORMAL
        line_type == Facts(line, m).class
        t == IF line_type = LP_SEG_ERROR THEN LP_SEG_ERROR
             ELSE IF line_type > phase_type THEN line_type
             ELSE phase_type
    IN  IF Facts(line, m).progress /\ t = LP_SEG_NORMAL
        THEN LP_SEG_BUILD_PROGRESS
        ELSE t

\* Lines 333-339: trailing build progress ends an error segment.
ProgressAfterError_never(saw_error_content, this_is_progress, line_type) == FALSE

ProgressAfterError(saw_error_content, this_is_progress, line_type) ==
    saw_error_content /\ this_is_progress /\ line_type = LP_SEG_NORMAL

\* Lines 321-369: the inner walk from ordinal i; returns the ordinal at which
\* it stopped and the segment type reached.
RECURSIVE ExtendSegment(_, _, _, _, _, _, _)
ExtendSegment(ls, m, seg_start, base_indent, i, seg_type, saw_error_content) ==
    LET stop == [i |-> i, seg_type |-> seg_type]
    IN  IF i >= Len(ls) THEN stop
        ELSE IF Facts(At(ls, i), m).blank THEN stop
        ELSE IF Facts(At(ls, i), m).phase /\ i > seg_start THEN stop
        ELSE IF Facts(At(ls, i), m).indent < base_indent - 2 /\ i > seg_start + 1
             THEN stop
        ELSE
          LET line_type == Facts(At(ls, i), m).class
              this_is_progress == Facts(At(ls, i), m).progress
              new_type == IF line_type = LP_SEG_ERROR THEN LP_SEG_ERROR
                          ELSE IF line_type = LP_SEG_WARNING /\ seg_type = LP_SEG_NORMAL
                               THEN LP_SEG_WARNING
                          ELSE seg_type
          IN  IF ProgressAfterError(saw_error_content, this_is_progress, line_type)
              THEN stop
              ELSE IF /\ seg_type = LP_SEG_BUILD_PROGRESS
                      /\ ~this_is_progress
                      /\ line_type = LP_SEG_ERROR
              THEN stop
              ELSE IF /\ Facts(At(ls, i), m).trigger
                      /\ i > seg_start + 2
                      /\ new_type = LP_SEG_NORMAL
              THEN [i |-> i, seg_type |-> new_type]
              ELSE ExtendSegment(ls, m, seg_start, base_indent, i + 1, new_type,
                                 saw_error_content \/ line_type = LP_SEG_ERROR)

\* Post-classification with the test of line 372 left out: the majorities
\* are taken for a segment of any type.
PostClassify_any_type(ls, m, seg_start, seg_end, seg_type) ==
    LET seg_lines == seg_end - seg_start
        bp_count == Cardinality({j \in seg_start..(seg_end - 1) :
                                    Facts(At(ls, j), m).boilerplate})
        progress_count == Cardinality({j \in seg_start..(seg_end - 1) :
                                          Facts(At(ls, j), m).progress})
        t1 == IF bp_count * 2 >= seg_lines /\ seg_type # LP_SEG_ERROR
              THEN LP_SEG_BOILERPLATE
              ELSE IF progress_count * 2 >= seg_lines /\ seg_type = LP_SEG_NORMAL
                   THEN LP_SEG_BUILD_PROGRESS
                   ELSE seg_type
    IN  IF t1 = LP_SEG_NORMAL /\ lp_is_tabular(Slice(ls, seg_start, seg_end))
        THEN LP_SEG_DATA
        ELSE t1

\* Lines 371-392: boilerplate / progress majority, then tabular.
PostClassify(ls, m, seg_start, seg_end, seg_type) ==
    LET seg_lines == seg_end - seg_start
        bp_count == Cardinality({j \in seg_start..(seg_end - 1) :
                                    Facts(At(ls, j), m).boilerplate})
        progress_count == Cardinality({j \in seg_start..(seg_end - 1) :
                                          Facts(At(ls, j), m).progress})
        t1 == IF seg_type = LP_SEG_NORMAL \/ seg_type = LP_SEG_DATA
              THEN IF bp_count * 2 >= seg_lines /\ seg_type # LP_SEG_ERROR
                   THEN LP_SEG_BOILERPLATE
                   ELSE IF progress_count * 2 >= seg_lines /\ seg_type = LP_SEG_NORMAL
                        THEN LP_SEG_BUILD_PROGRESS
                        ELSE seg_type
              ELSE seg_type
    IN  IF t1 = LP_SEG_NORMAL /\ lp_is_tabular(Slice(ls, seg_start, seg_end))
        THEN LP_SEG_DATA
        ELSE t1

\* The outer loop resuming one line after the line the walk stopped at.
RECURSIVE DetectFrom_skip(_, _, _, _)
DetectFrom_skip(ls, m, i, acc) ==
    IF i >= Len(ls) THEN acc
    ELSE IF Facts(At(ls, i), m).blank THEN DetectFrom_skip(ls, m, i + 1, acc)
    ELSE
      LET seg_start == i
          first == At(ls, i)
          walk == ExtendSegment(ls, m, seg_start, Facts(first, m).indent, i + 1,
                                FirstLineType(first, m),
                                Facts(first, m).class = LP_SEG_ERROR)
          seg_end == walk.i
          seg_type == PostClassify(ls, m, seg_start, seg_end, walk.seg_type)
      IN  DetectFrom_skip(ls, m, seg_end + 1,
                     Append(acc, push_segment(ls, seg_start, seg_end, seg_type)))

\* Lines 285-395: the outer loop from ordinal i with the segments pushed so far.
RECURSIVE DetectFrom(_, _, _, _)
DetectFrom(ls, m, i, acc) ==
    IF i >= Len(ls) THEN acc
    ELSE IF Facts(At(ls, i), m).blank THEN DetectFrom(ls, m, i + 1, acc)
    ELSE
      LET seg_start == i
          first == At(ls, i)
          walk == ExtendSegment(ls, m, seg_start, Facts(first, m).indent, i + 1,
                                FirstLineType(first, m),
                                Facts(first, m).class = LP_SEG_ERROR)
          seg_end == walk.i
          seg_type == PostClassify(ls, m, seg_start, seg_end, walk.seg_type)
      IN  DetectFrom(ls, m, seg_end,
                     Append(acc, push_segment(ls, seg_start, seg_end, seg_type)))

lp_segment_detect(ls, m) == DetectFrom(ls, m, 0, <<>>)

LineArrays == UNION {[1..n -> LineVocab] : n \in 0..MaxLines}

SegIdle ==
    /\ lines = <<>>
    /\ mode = NULL
    /\ segs = <<>>
    /\ seg_pc = "idle"

\* A block of five two-column lines between blank lines.
TabularBlock ==
    <<L_blank, L_cols_space, L_cols_tab, L_cols_space, L_cols_tab, L_cols_space, L_blank>>

\* Logs given to the segmenter besides the line arrays: one longer than
\* MaxLines, and logs that start with the phase-marker warning.
LongLogs == {TabularBlock, <<L_phase_warning>>, <<L_phase_warning, L_config>>,
             <<L_phase_warning, L_progress, L_error>>}

SegInit ==
    /\ lines \in LineArrays \cup LongLogs
    /\ mode \in ModeSet
    /\ segs = <<>>
    /\ seg_pc = "input"

\* logparse.c:762 / logexplore.c:369: one call of lp_segment_detect.
SegmentDetect ==
    /\ seg_pc = "input"
    /\ segs' = lp_segment_detect(lines, mode)
    /\ seg_pc' = "done"
    /\ UNCHANGED <<lines, mode>>

(***************************************************************************)
(* budget.c                                                                *)
(***************************************************************************)
\* A scored_idx candidate is [idx, score]; a score is a float holding a small
\* whole number (score.c adds 10, 5, 4, 3, 2 and 1), modelled by that number.
cmp_score_desc(a, b) ==
    IF a.score > b.score THEN -1
    ELSE IF a.score < b.score THEN 1
    ELSE 0

cmp_size_t_asc(va, vb) ==
    IF va < vb THEN -1
    ELSE IF va > vb THEN 1
    ELSE 0

Range(f) == {f[x] : x \in DOMAIN f}

\* qsort(candidates, ncand, ..., cmp_score_desc): C leaves the order of elements
\* that compare equal unspecified, so every arrangement of the candidates that
\* the comparison accepts is an outcome.
QsortByScore(candidates) ==
    {p \in [1..Len(candidates) -> Range(candidates)] :
        /\ \A c \in Range(candidates) : \E k \in 1..Len(candidates) : p[k] = c
        /\ \A a, b \in 1..Len(candidates) :
              a < b => cmp_score_desc(p[a], p[b]) <= 0}

RECURSIVE InsertAsc(_, _)
InsertAsc(v, sorted) ==
    IF sorted = <<>> THEN <<v>>
    ELSE IF cmp_size_t_asc(v, Head(sorted)) <= 0 THEN <<v>> \o sorted
    ELSE <<Head(sorted)>> \o InsertAsc(v, Tail(sorted))

RECURSIVE SortedAsc(_)
SortedAsc(s) == IF s = <<>> THEN <<>> ELSE InsertAsc(Head(s), SortedAsc(Tail(s)))

SortIndices_unsorted(indices) == indices

\* Line 69: qsort(result.indices, result.count, ..., cmp_size_t_asc).
SortIndices(indices) == SortedAsc(indices)

Available_ignores_reserve(budget, reserve) == budget

\* Line 38.
Available(budget, reserve) == IF budget > reserve THEN budget - reserve ELSE 0

\* Lines 41-46: Phase 1 from index i; r is [indices, total_tokens].
RECURSIVE MandatoryErrors(_, _, _)
MandatoryErrors(sg, i, r) ==
    IF i >= Len(sg) THEN r
    ELSE IF sg[i + 1].type = LP_SEG_ERROR
         THEN MandatoryErrors(sg, i + 1,
                  [indices |-> Append(r.indices, i),
                   total_tokens |-> r.total_tokens + sg[i + 1].token_count])
         ELSE MandatoryErrors(sg, i + 1, r)

\* Phase 1 holding error segments to the budget like any other segment.
RECURSIVE BudgetedErrors(_, _, _, _)
BudgetedErrors(sg, i, r, available) ==
    IF i >= Len(sg) THEN r
    ELSE IF /\ sg[i + 1].type = LP_SEG_ERROR
            /\ r.total_tokens + sg[i + 1].token_count <= available
         THEN BudgetedErrors(sg, i + 1,
                  [indices |-> Append(r.indices, i),
                   total_tokens |-> r.total_tokens + sg[i + 1].token_count],
                  available)
         ELSE BudgetedErrors(sg, i + 1, r, available)

\* Lines 49-56: the non-error candidates, in array order.
RECURSIVE Candidates(_, _)
Candidates(sg, i) ==
    IF i >= Len(sg) THEN <<>>
    ELSE IF sg[i + 1].type = LP_SEG_ERROR THEN Candidates(sg, i + 1)
    ELSE <<[idx |-> i, score |-> sg[i + 1].score]>> \o Candidates(sg, i + 1)

\* Lines 59-65: Phase 2 over the sorted candidates from position c.
RECURSIVE FillByScore(_, _, _, _, _)
FillByScore(sg, sorted, c, r, available) ==
    IF c > Len(sorted) THEN r
    ELSE LET idx == sorted[c].idx
         IN  IF r.total_tokens + sg[idx + 1].token_count <= available
             THEN FillByScore(sg, sorted, c + 1,
                      [indices |-> Append(r.indices, idx),
                       total_tokens |-> r.total_tokens + sg[idx + 1].token_count],
                      available)
             ELSE FillByScore(sg, sorted, c + 1, r, available)

EmptyPack == [indices |-> <<>>, total_tokens |-> 0]

lp_budget_pack_errors_budgeted(sg, budget, reserve, sorted) ==
    LET available == Available(budget, reserve)
        r == FillByScore(sg, sorted, 1, BudgetedErrors(sg, 0, EmptyPack, available),
                         available)
    IN  [indices |-> SortIndices(r.indices),
         count |-> Len(r.indices),
         total_tokens |-> r.total_tokens + reserve,
         budget_tokens |-> budget]

\* Lines 30-73, given the order qsort left the candidates in.
lp_budget_pack(sg, budget, reserve, sorted) ==
    LET available == Available(budget, reserve)
        r == FillByScore(sg, sorted, 1, MandatoryErrors(sg, 0, EmptyPack), available)
    IN  [indices |-> SortIndices(r.indices),
         count |-> Len(r.indices),
         total_tokens |-> r.total_tokens + reserve,
         budget_tokens |-> budget]

(***************************************************************************)
(* Packer inputs                                                           *)
(***************************************************************************)
MaxSegs == 3

\* The fields of lp_segment the packer reads.  An ERROR segment scores at least
\* 10 (score.c:16); the packer never reads the score of one.
ScoredSegments ==
    [type : {LP_SEG_ERROR}, token_count : {300, 1000}, score : {10}]
    \cup [type : {LP_SEG_WARNING, LP_SEG_NORMAL},
          token_count : {300, 1000}, score : {0, 5}]

SegmentArrays == UNION {[1..n -> ScoredSegments] : n \in 0..MaxSegs}

BudgetChoices == {0, 500, 900}
ReserveChoices == {0, 200}

PackInit ==
    /\ bsegs \in SegmentArrays
    /\ budget_tokens \in BudgetChoices
    /\ reserve_tokens \in ReserveChoices
    /\ result = [indices |-> <<>>, count |-> 0, total_tokens |-> 0, budget_tokens |-> 0]
    /\ cand_order = <<>>
    /\ pack_pc = "input"

\* logparse.c:783: one call of lp_budget_pack.
BudgetPack ==
    /\ pack_pc = "input"
    /\ \E sorted \in QsortByScore(Candidates(bsegs, 0)) :
          /\ cand_order' = sorted
          /\ result' = lp_budget_pack(bsegs, budget_tokens, reserve_tokens, sorted)
    /\ pack_pc' = "done"
    /\ UNCHANGED <<bsegs, budget_tokens, reserve_tokens>>

PackIdle ==
    /\ bsegs = <<>>
    /\ budget_tokens = 0
    /\ reserve_tokens = 0
    /\ result = [indices |-> <<>>, count |-> 0, total_tokens |-> 0, budget_tokens |-> 0]
    /\ cand_order = <<>>
    /\ pack_pc = "idle"

(***************************************************************************)
(* dedup.c                                                                 *)
(***************************************************************************)
\* (unsigned char) of the characters the dedup lines are written in.
Ord(c) ==
    IF \E k \in 1..Len(Lowers) : Lowers[k] = c
    THEN 96 + (CHOOSE k \in 1..Len(Lowers) : Lowers[k] = c)
    ELSE IF \E k \in 1..Len(Uppers) : Uppers[k] = c
    THEN 64 + (CHOOSE k \in 1..Len(Uppers) : Uppers[k] = c)
    ELSE IF c = " " THEN 32
    ELSE IF c = "\t" THEN 9
    ELSE IF c = ":" THEN 58
    ELSE 48 + (CHOOSE v \in 0..9 : <<"0", "1", "2", "3", "4", "5", "6", "7", "8", "9">>[v + 1] = c)

\* The hash is kept to its low HashBits bits.  XOR and multiplication modulo
\* 2^64 reduce exactly modulo 2^HashBits, so these are the low bits of the
\* 64-bit FNV-1a value; the table reads the hash only through h & (capacity-1)
\* and through an equality test that is paired with strcmp.
HashBits == 16
HashMod == 2 ^ HashBits
\* 14695981039346656037 (0xcbf29ce484222325) modulo 2^16
FNV_OFFSET == 8997
\* 1099511628211 (0x100000001b3) modulo 2^16
FNV_PRIME == 435

RECURSIVE XorBits(_, _, _)
XorBits(a, b, n) ==
    IF n = 0 THEN 0
    ELSE (IF a % 2 = b % 2 THEN 0 ELSE 1) + 2 * XorBits(a \div 2, b \div 2, n - 1)

RECURSIVE FnvFrom(_, _, _)
FnvFrom(data, i, h) ==
    IF i > Len(data) THEN h
    ELSE FnvFrom(data, i + 1, (XorBits(h, Ord(data[i]), HashBits) * FNV_PRIME) % HashMod)

lp_fnv1a(data) == FnvFrom(data, 1, FNV_OFFSET)

RECURSIVE Pow2From(_, _)
Pow2From(v, n) == IF v < n THEN Pow2From(v * 2, n) ELSE v

next_pow2(n) == Pow2From(1, n)

\* A bucket as calloc leaves it; the NULL strings are written <<>>.
EmptyBucket ==
    [occupied |-> FALSE, hash |-> 0, normalized |-> <<>>, original |-> <<>>,
     first_line |-> 0, count |-> 0]

MinCapacity == 64

\* lp_dedup_init without the minimum capacity of line 32.
lp_dedup_init_no_minimum(initial_cap) ==
    LET cap == next_pow2(initial_cap)
    IN  [capacity |-> cap, count |-> 0, buckets |-> [b \in 0..(cap - 1) |-> EmptyBucket]]

lp_dedup_init(initial_cap) ==
    LET cap == next_pow2(IF initial_cap < MinCapacity THEN MinCapacity ELSE initial_cap)
    IN  [capacity |-> cap, count |-> 0, buckets |-> [b \in 0..(cap - 1) |-> EmptyBucket]]

\* Probing that never compares the entries it passes.
RECURSIVE Probe_first_free(_, _, _, _, _, _)
Probe_first_free(buckets, cap, idx, matching, h, norm) ==
    IF ~buckets[idx].occupied THEN idx
    ELSE Probe_first_free(buckets, cap, (idx + 1) % cap, matching, h, norm)

\* Lines 57-59 and 135-143: linear probing from idx; stops at the first bucket
\* that is unoccupied or, when matching, holds (h, norm).
RECURSIVE Probe(_, _, _, _, _, _)
Probe(buckets, cap, idx, matching, h, norm) ==
    IF ~buckets[idx].occupied THEN idx
    ELSE IF matching /\ buckets[idx].hash = h /\ buckets[idx].normalized = norm THEN idx
    ELSE Probe(buckets, cap, (idx + 1) % cap, matching, h, norm)

\* Re-insertion that stores each entry at its home bucket without probing.
RECURSIVE Rehash_no_probe(_, _, _, _)
Rehash_no_probe(t, i, new_buckets, new_cap) ==
    IF i >= t.capacity THEN new_buckets
    ELSE IF ~t.buckets[i].occupied THEN Rehash_no_probe(t, i + 1, new_buckets, new_cap)
    ELSE Rehash_no_probe(t, i + 1,
             [new_buckets EXCEPT ![t.buckets[i].hash % new_cap] = t.buckets[i]], new_cap)

\* Lines 53-61: re-insert old buckets i.. into new_buckets.
RECURSIVE Rehash(_, _, _, _)
Rehash(t, i, new_buckets, new_cap) ==
    IF i >= t.capacity THEN new_buckets
    ELSE IF ~t.buckets[i].occupied THEN Rehash(t, i + 1, new_buckets, new_cap)
    ELSE LET idx == Probe(new_buckets, new_cap, t.buckets[i].hash % new_cap,
                          FALSE, 0, <<>>)
         IN  Rehash(t, i + 1, [new_buckets EXCEPT ![idx] = t.buckets[i]], new_cap)

dedup_grow(t) ==
    LET new_cap == t.capacity * 2
    IN  [capacity |-> new_cap,
         count |-> t.count,
         buckets |-> Rehash(t, 0, [b \in 0..(new_cap - 1) |-> EmptyBucket], new_cap)]

\* re_matchp of the regex library for a pattern "one or more characters of a
\* class" such as [0-9]+ : the offset and length of the first, longest match
\* in text, or offset -1.
RECURSIVE ClassRun(_, _, _)
ClassRun(class, text, i) ==
    IF i <= Len(text) /\ text[i] \in class THEN 1 + ClassRun(class, text, i + 1) ELSE 0

ClassMatch(class, text) ==
    IF \E i \in 1..Len(text) : text[i] \in class
    THEN LET first == CHOOSE i \in 1..Len(text) :
                          /\ text[i] \in class
                          /\ \A j \in 1..(i - 1) : text[j] \notin class
         IN  [match_idx |-> first - 1, match_len |-> ClassRun(class, text, first)]
    ELSE [match_idx |-> -1, match_len |-> 0]

\* ... and for a pattern without metacharacters such as "a b": the offset of
\* the first occurrence of the pattern's text.
LiteralAt(literal, text, i) ==
    /\ i + Len(literal) - 1 <= Len(text)
    /\ \A k \in 1..Len(literal) : text[i + k - 1] = literal[k]

LiteralMatch(literal, text) ==
    IF \E i \in 1..Len(text) : LiteralAt(literal, text, i)
    THEN LET first == CHOOSE i \in 1..Len(text) :
                          /\ LiteralAt(literal, text, i)
                          /\ \A j \in 1..(i - 1) : ~LiteralAt(literal, text, j)
         IN  [match_idx |-> first - 1, match_len |-> Len(literal)]
    ELSE [match_idx |-> -1, match_len |-> 0]

re_matchp(pat, text) ==
    IF "literal" \in DOMAIN pat
    THEN LiteralMatch(pat.literal, text)
    ELSE ClassMatch(pat.class, text)

\* Lines 84-96: replace every match of pat in text by one space.
RECURSIVE StripPattern(_, _)
StripPattern(pat, text) ==
    IF text = <<>> THEN <<>>
    ELSE LET m == re_matchp(pat, text)
         IN  IF m.match_idx >= 0 /\ m.match_len > 0
             THEN SubSeq(text, 1, m.match_idx) \o <<" ">>
                  \o StripPattern(pat, SubSeq(text, m.match_idx + m.match_len + 1, Len(text)))
             ELSE text

RECURSIVE StripAll(_, _, _)
StripAll(text, strip_patterns, i) ==
    IF i > Len(strip_patterns) THEN text
    ELSE StripAll(StripPattern(strip_patterns[i], text), strip_patterns, i + 1)

\* Lines 107-115 after the leading whitespace is skipped.
RECURSIVE CollapseFrom(_, _, _)
CollapseFrom(text, i, in_ws) ==
    IF i > Len(text) THEN <<>>
    ELSE IF isspace(text[i])
         THEN (IF in_ws THEN <<>> ELSE <<" ">>) \o CollapseFrom(text, i + 1, TRUE)
         ELSE <<text[i]>> \o CollapseFrom(text, i + 1, FALSE)

\* Lines 102-118.
CollapseWhitespace(text) ==
    LET collapsed == CollapseFrom(text, SkipSpace(text, 0) + 1, FALSE)
    IN  IF collapsed # <<>> /\ collapsed[Len(collapsed)] = " "
        THEN SubSeq(collapsed, 1, Len(collapsed) - 1)
        ELSE collapsed

lp_normalize_line(line, strip_patterns) ==
    CollapseWhitespace(StripAll(line, strip_patterns, 1))

\* lp_dedup_insert keeping the latest text of a repeated line.
InsertEntry_keeps_latest(t, idx, h, norm, line, line_num) ==
    IF t.buckets[idx].occupied
    THEN [t EXCEPT !.buckets[idx].count = @ + 1, !.buckets[idx].original = line]
    ELSE [t EXCEPT !.buckets[idx] =
                      [occupied |-> TRUE, hash |-> h, normalized |-> norm,
                       original |-> line, first_line |-> line_num, count |-> 1],
                   !.count = @ + 1]

\* Lines 136-152: what the insert does at the bucket the probe ended at.
InsertEntry(t, idx, h, norm, line, line_num) ==
    IF t.buckets[idx].occupied
    THEN [t EXCEPT !.buckets[idx].count = @ + 1]
    ELSE [t EXCEPT !.buckets[idx] =
                      [occupied |-> TRUE, hash |-> h, normalized |-> norm,
                       original |-> line, first_line |-> line_num, count |-> 1],
                   !.count = @ + 1]

NeedsGrow_at_eighty(t) == t.count * 10 > t.capacity * 8

\* Line 126.
NeedsGrow(t) == t.count * 10 > t.capacity * 7

lp_dedup_insert(t, line, line_num, strip_patterns) ==
    LET t1 == IF NeedsGrow(t) THEN dedup_grow(t) ELSE t
        norm == lp_normalize_line(line, strip_patterns)
        h == lp_fnv1a(norm)
        idx == Probe(t1.buckets, t1.capacity, h % t1.capacity, TRUE, h, norm)
    IN  InsertEntry(t1, idx, h, norm, line, line_num)

cmp_freq_desc(ea, eb) ==
    IF ea.count > eb.count THEN -1
    ELSE IF ea.count < eb.count THEN 1
    ELSE 0

\* Lines 167-171: the occupied buckets i.. in bucket order.
RECURSIVE OccupiedFrom(_, _)
OccupiedFrom(t, i) ==
    IF i >= t.capacity THEN <<>>
    ELSE IF t.buckets[i].occupied THEN <<t.buckets[i]>> \o OccupiedFrom(t, i + 1)
    ELSE OccupiedFrom(t, i + 1)

\* qsort(arr, n, ..., cmp_freq_desc): every arrangement of arr that the
\* comparison accepts is an outcome.
QsortByFreq(arr) ==
    {p \in [1..Len(arr) -> Range(arr)] :
        /\ \A e \in Range(arr) : \E k \in 1..Len(arr) : p[k] = e
        /\ \A a, b \in 1..Len(arr) : a < b => cmp_freq_desc(p[a], p[b]) <= 0}

\* The arrays lp_dedup_sorted may return.
lp_dedup_sorted(t) == QsortByFreq(OccupiedFrom(t, 0))

(***************************************************************************)
(* Dedup inputs                                                            *)
(***************************************************************************)
MaxDistinct == 47
MaxRepeats == 2

Letters == <<"a", "b", "c", "d", "e", "f", "g">>

\* The n-th two-letter line, n in 0 .. Len(Letters)^2 - 1.
TwoLetters(n) == <<Letters[(n \div Len(Letters)) + 1], Letters[(n % Len(Letters)) + 1]>>

DigitRun == [class |-> Digits]

\* The ordinals, in the order of first occurrence, of the lines the input
\* repeats.
HotLines == {0, 1}

\* The runs: the distinct lines met in the order "aa", "ab", "ac", ... with no
\* strip pattern (logexplore.c:347), or in the order "ba", "gb", "ec", ...
\* ("ba" and "gb" share their home bucket) with the strip pattern [0-9]+.
FeedChoices ==
    {[order |-> [start |-> 0, stride |-> 1], strip |-> <<>>],
     [order |-> [start |-> 7, stride |-> 36], strip |-> <<DigitRun>>]}

BaseLine(order, k) ==
    TwoLetters((order.start + k * order.stride) % (Len(Letters) * Len(Letters)))

\* A raw line whose text differs from the base line: padded with whitespace,
\* or followed by a number (which the digit strip pattern removes).
Variant(line, v) ==
    IF v = "padded" THEN <<" ">> \o line \o <<" ", "\t">>
    ELSE IF v = "numbered" THEN line \o <<" ", "4", "2">>
    ELSE line

DedupIdle ==
    /\ table = [buckets |-> <<>>, capacity |-> 0, count |-> 0]
    /\ ninserts = 0
    /\ last_line = <<>>
    /\ feed = [order |-> [start |-> 0, stride |-> 1], strip |-> <<>>,
               fresh |-> 0, repeats |-> 0]
    /\ freq = [done |-> FALSE, arr |-> <<>>]

\* logparse.c:754-755: lp_dedup_init, before the first insert.
DedupInit ==
    /\ \E initial_cap \in {0, MinCapacity} : table = lp_dedup_init(initial_cap)
    /\ ninserts = 0
    /\ last_line = <<>>
    /\ \E f \in FeedChoices :
          feed = [order |-> f.order, strip |-> f.strip, fresh |-> 0, repeats |-> 0]
    /\ freq = [done |-> FALSE, arr |-> <<>>]

\* logparse.c:756-758: lp_dedup_insert(&dedup, la.lines[i], i, strip_pats, ...)
\* for the next line of the input, a line not met before (the first of them
\* in either spelling) ...
InsertFresh ==
    /\ feed.fresh < MaxDistinct
    /\ \E v \in (IF feed.fresh = 0 THEN {"plain", "padded"} ELSE {"plain"}) :
          LET line == Variant(BaseLine(feed.order, feed.fresh), v)
          IN  /\ table' = lp_dedup_insert(table, line, ninserts, feed.strip)
              /\ last_line' = line
    /\ ninserts' = ninserts + 1
    /\ feed' = [feed EXCEPT !.fresh = @ + 1]

\* ... or one of the HotLines lines again, in any spelling.  The input
\* repeats a line among its first lines, or once the table is at or past
\* its first resize.
InsertRepeat ==
    /\ feed.repeats < MaxRepeats
    /\ \/ feed.fresh <= Cardinality(HotLines)
       \/ NeedsGrow(table)
       \/ table.capacity > MinCapacity
    /\ \E k \in HotLines, v \in {"plain", "padded", "numbered"} :
          /\ k < feed.fresh
          /\ LET line == Variant(BaseLine(feed.order, k), v)
             IN  /\ table' = lp_dedup_insert(table, line, ninserts, feed.strip)
                 /\ last_line' = line
    /\ ninserts' = ninserts + 1
    /\ feed' = [feed EXCEPT !.repeats = @ + 1]

\* The frequency table of a short log.
MaxSortLines == 4

\* logparse.c:479: lp_dedup_sorted, once the lines are inserted.
DedupSorted ==
    /\ ~freq.done
    /\ \E arr \in lp_dedup_sorted(table) : freq' = [done |-> TRUE, arr |-> arr]
    /\ UNCHANGED <<table, ninserts, last_line, feed>>

(***************************************************************************)
(* lp_normalize_line called on its result                                  *)
(***************************************************************************)
MaxNormLen == 3

NormChars == {"a", "b", "1", " "}

RECURSIVE TextsUpTo(_, _)
TextsUpTo(chars, n) ==
    IF n = 0 THEN {<<>>}
    ELSE LET shorter == TextsUpTo(chars, n - 1)
         IN  shorter \cup {<<c>> \o t : c \in chars, t \in {u \in shorter : Len(u) = n - 1}}

\* The strip pattern "a b".
LiteralAB == [literal |-> <<"a", " ", "b">>]

StripLists == {<<>>, <<DigitRun>>, <<DigitRun, LiteralAB>>, <<LiteralAB, DigitRun>>}

NormIdle == normcall = [pc |-> "idle", line |-> <<>>, strip_patterns |-> <<>>,
                    once |-> <<>>, twice |-> <<>>]

NormInit ==
    \E line \in TextsUpTo(NormChars, MaxNormLen), P \in StripLists :
        normcall = [pc |-> "input", line |-> line, strip_patterns |-> P,
                once |-> <<>>, twice |-> <<>>]

\* normcall.once = lp_normalize_line(line, strip_patterns, strip_count)
Normalize ==
    /\ normcall.pc = "input"
    /\ normcall' = [normcall EXCEPT !.pc = "once",
                            !.once = lp_normalize_line(normcall.line, normcall.strip_patterns)]

\* normcall.twice = lp_normalize_line(normcall.once, strip_patterns, strip_count)
NormalizeAgain ==
    /\ normcall.pc = "once"
    /\ normcall' = [normcall EXCEPT !.pc = "twice",
                            !.twice = lp_normalize_line(normcall.once, normcall.strip_patterns)]

(***************************************************************************)
(* mode.c: lp_mode_detect                                                  *)
(***************************************************************************)
\* Lines 260-264: the lines l.. and signatures s.. that add to score.
RECURSIVE SignatureScore(_, _, _, _)
SignatureScore(first_lines, signatures, l, sg) ==
    IF l > Len(first_lines) THEN 0
    ELSE IF sg > Len(signatures) THEN SignatureScore(first_lines, signatures, l + 1, 1)
    ELSE (IF lp_str_contains(first_lines[l], signatures[sg]) THEN 1 ELSE 0)
         + SignatureScore(first_lines, signatures, l, sg + 1)

\* Lines 257-270 with the later profile winning a tie.
RECURSIVE ModeDetectFrom_last_wins(_, _, _, _, _)
ModeDetectFrom_last_wins(first_lines, modes, m, best_name, best_score) ==
    IF m > Len(modes) THEN best_name
    ELSE IF Len(modes[m].signatures) = 0
    THEN ModeDetectFrom_last_wins(first_lines, modes, m + 1, best_name, best_score)
    ELSE LET score == SignatureScore(first_lines, modes[m].signatures, 1, 1)
         IN  IF score >= best_score /\ score > 0
             THEN ModeDetectFrom_last_wins(first_lines, modes, m + 1, modes[m].name, score)
             ELSE ModeDetectFrom_last_wins(first_lines, modes, m + 1, best_name, best_score)

\* Lines 257-270: the loop over the profiles m.. .
RECURSIVE ModeDetectFrom(_, _, _, _, _)
ModeDetectFrom(first_lines, modes, m, best_name, best_score) ==
    IF m > Len(modes) THEN best_name
    ELSE IF Len(modes[m].signatures) = 0
    THEN ModeDetectFrom(first_lines, modes, m + 1, best_name, best_score)
    ELSE LET score == SignatureScore(first_lines, modes[m].signatures, 1, 1)
         IN  IF score > best_score
             THEN ModeDetectFrom(first_lines, modes, m + 1, modes[m].name, score)
             ELSE ModeDetectFrom(first_lines, modes, m + 1, best_name, best_score)

lp_mode_detect(first_lines, modes) == ModeDetectFrom(first_lines, modes, 1, "generic", 0)

MaxModes == 2
MaxSniff == 2

RECURSIVE SeqsUpTo(_, _)
SeqsUpTo(S, n) ==
    IF n = 0 THEN {<<>>}
    ELSE LET shorter == SeqsUpTo(S, n - 1)
         IN  shorter \cup {<<x>> \o t : x \in S, t \in {u \in shorter : Len(u) = n - 1}}

\* The signature lists of the profiles: none, one, two, a repeated one, the
\* empty signature.
SignatureLists ==
    {<<>>, <<<<"a", "b">>>>, <<<<"b">>>>, <<<<"b">>, <<"a", "b">>>>,
     <<<<"b">>, <<"b">>>>, <<<<>>>>}

SniffLines == {<<"a", "b">>, <<"b", "b", "a">>, <<"B", "a">>}

ModeNames == <<"zephyr", "cmake", "pio", "make">>

\* The loaded profiles: the k-th loaded is named ModeNames[k].
ModeArrays ==
    {[k \in 1..Len(sl) |-> [name |-> ModeNames[k], signatures |-> sl[k]]] :
        sl \in SeqsUpTo(SignatureLists, MaxModes)}

DetectIdle == detect = [pc |-> "idle", first_lines |-> <<>>, modes |-> <<>>, name |-> ""]

DetectInit ==
    \E first_lines \in SeqsUpTo(SniffLines, MaxSniff), modes \in ModeArrays :
        detect = [pc |-> "input", first_lines |-> first_lines, modes |-> modes, name |-> ""]

\* logparse.c:740: mode_name = lp_mode_detect(la.lines, sniff, modes, mode_count)
ModeDetect ==
    /\ detect.pc = "input"
    /\ detect' = [detect EXCEPT !.pc = "done",
                                !.name = lp_mode_detect(detect.first_lines, detect.modes)]

(***************************************************************************)
(* fix.c: lp_fix_match_all                                                 *)
(***************************************************************************)
isxdigit(c) == c \in Digits \cup {"a", "b", "c", "d", "e", "f", "A", "B", "C", "D", "E", "F"}

\* Line 272: the index after the hexadecimal digits that start at i.
RECURSIVE HexEnd(_, _)
HexEnd(text, i) == IF i <= Len(text) /\ isxdigit(text[i]) THEN HexEnd(text, i + 1) ELSE i

\* Line 279: the index after the digits that start at i.
RECURSIVE DigitsEnd(_, _)
DigitsEnd(text, i) == IF i <= Len(text) /\ isdigit(text[i]) THEN DigitsEnd(text, i + 1) ELSE i

\* Lines 258-284: the loop of normalize_for_match from the character at i.
RECURSIVE NormalizeFrom(_, _, _)
NormalizeFrom(text, i, in_path) ==
    IF i > Len(text) THEN <<>>
    ELSE IF text[i] \in {"/", "\\"} /\ i + 1 <= Len(text) /\ text[i + 1] # " "
    THEN NormalizeFrom(text, i + 1, TRUE)
    ELSE IF in_path /\ text[i] \notin {" ", ":", "\n"}
    THEN NormalizeFrom(text, i + 1, TRUE)
    ELSE IF text[i] = "0" /\ i + 1 <= Len(text) /\ text[i + 1] = "x"
    THEN <<" ">> \o NormalizeFrom(text, HexEnd(text, i + 2), FALSE)
    ELSE IF isdigit(text[i])
    THEN <<"#">> \o NormalizeFrom(text, DigitsEnd(text, i + 1), FALSE)
    ELSE <<tolower(text[i])>> \o NormalizeFrom(text, i + 1, FALSE)

normalize_for_match(text) == NormalizeFrom(text, 1, FALSE)

\* Lines 296-307: the value the loop writes to curr[j] in row i.  prev is
\* row i - 1, and row 0 and column 0 hold the zeros calloc and memset wrote.
\* The cell when a mismatch carries the best neighbour over instead of
\* writing 0: the longest common subsequence.
RECURSIVE LcsCell_no_reset(_, _, _, _)
LcsCell_no_reset(a, b, i, j) ==
    IF i = 0 \/ j = 0 THEN 0
    ELSE IF a[i] = b[j] THEN LcsCell_no_reset(a, b, i - 1, j - 1) + 1
    ELSE Max({LcsCell_no_reset(a, b, i - 1, j), LcsCell_no_reset(a, b, i, j - 1)})

RECURSIVE LcsCell(_, _, _, _)
LcsCell(a, b, i, j) ==
    IF i = 0 \/ j = 0 THEN 0
    ELSE IF a[i] = b[j] THEN LcsCell(a, b, i - 1, j - 1) + 1
    ELSE 0

\* Lines 290-311: best is the largest value written to the table.
lcs_length(a, b) ==
    IF Len(a) = 0 \/ Len(b) = 0 THEN 0
    ELSE Max({0} \cup {LcsCell(a, b, i, j) : i \in 1..Len(a), j \in 1..Len(b)})

\* A float confidence is written as the fraction it rounds: 0.9f is 9/10,
\* 0.85f is 17/20, (float)lcs / (float)max_len is lcs/max_len.
Frac(num, den) == [num |-> num, den |-> den]

FracLess(x, y) == x.num * y.den < y.num * x.den

cmp_match_desc(a, b) ==
    IF FracLess(b.confidence, a.confidence) THEN -1
    ELSE IF FracLess(a.confidence, b.confidence) THEN 1
    ELSE 0

\* Lines 337-344: the regex field set, and matching the raw error text.
RegexConfidence(error_text, fix) ==
    IF fix.regex # [literal |-> <<>>] /\ re_matchp(fix.regex, error_text).match_idx >= 0
    THEN Frac(9, 10)
    ELSE Frac(0, 1)

\* Lines 334-362 with the substring test on the normalized texts.
FixConfidence_normalized_substring(error_text, fix) ==
    LET conf == RegexConfidence(error_text, fix)
        norm_error == normalize_for_match(error_text)
        norm_pat == normalize_for_match(fix.pattern)
        max_len == Max({Len(norm_error), Len(norm_pat)})
        fuzzy == Frac(lcs_length(norm_error, norm_pat), max_len)
    IN  IF ~FracLess(conf, Frac(1, 2)) THEN conf
        ELSE IF lp_str_contains_ci(norm_error, norm_pat) THEN Frac(17, 20)
        ELSE IF max_len > 0 /\ FracLess(conf, fuzzy) THEN fuzzy
        ELSE conf

\* Lines 334-362: the confidence of one fix entry.
FixConfidence(error_text, fix) ==
    LET conf == RegexConfidence(error_text, fix)
        norm_error == normalize_for_match(error_text)
        norm_pat == normalize_for_match(fix.pattern)
        max_len == Max({Len(norm_error), Len(norm_pat)})
        fuzzy == Frac(lcs_length(norm_error, norm_pat), max_len)
    IN  IF ~FracLess(conf, Frac(1, 2)) THEN conf
        ELSE IF lp_str_contains_ci(error_text, fix.pattern) THEN Frac(17, 20)
        ELSE IF max_len > 0 /\ FracLess(conf, fuzzy) THEN fuzzy
        ELSE conf

\* Lines 333-373: the matches appended for the entries fixes[i].. .
RECURSIVE MatchesFrom(_, _, _, _)
MatchesFrom(error_text, fixes, i, min_confidence) ==
    IF i >= Len(fixes) THEN <<>>
    ELSE LET conf == FixConfidence(error_text, fixes[i + 1])
         IN  (IF ~FracLess(conf, min_confidence)
              THEN <<[fix |-> i, confidence |-> conf]>>
              ELSE <<>>)
             \o MatchesFrom(error_text, fixes, i + 1, min_confidence)

\* qsort(matches, *match_count, ..., cmp_match_desc): every arrangement that
\* the comparison accepts is an outcome.
QsortByConfidence(matches) ==
    {p \in [1..Len(matches) -> Range(matches)] :
        /\ \A x \in Range(matches) : \E k \in 1..Len(matches) : p[k] = x
        /\ \A a, b \in 1..Len(matches) : a < b => cmp_match_desc(p[a], p[b]) <= 0}

\* The arrays lp_fix_match_all may return; a match names its entry by the
\* entry's index in fixes.
lp_fix_match_all(error_text, fixes, min_confidence) ==
    IF Len(fixes) = 0 THEN {<<>>}
    ELSE QsortByConfidence(MatchesFrom(error_text, fixes, 0, min_confidence))

MaxFixes == 2

E_undef == <<"u", "n", "d", "e", "f", "i", "n", "e", "d", " ", "r", "e", "f", "e", "r", "e", "n", "c", "e", " ", "t", "o", " ", "'", "f", "o", "o", "_", "b", "a", "r", "'", " ", "i", "n", " ", "/", "p", "a", "t", "h", "/", "x", ".", "o">>
P_undef == <<"u", "n", "d", "e", "f", "i", "n", "e", "d", " ", "r", "e", "f", "e", "r", "e", "n", "c", "e", " ", "t", "o", " ", "f", "o", "o", "_", "b", "a", "r">>

NoRegex == [literal |-> <<>>]

ErrorTexts == {E_undef, <<"a", "b", " ", "1", "2">>, <<"A", "B">>, <<"0", "x", "1", "f", " ", "/", "u", ":", "b">>, <<>>}

\* Fix entries: the pattern of the scenario; patterns that are substrings of
\* an error text; one that meets "ab 12" only after normalization; one with a
\* regex; one that is a path.
FixEntries ==
    {[pattern |-> P_undef, regex |-> NoRegex],
     [pattern |-> <<"a", "b">>, regex |-> NoRegex],
     [pattern |-> <<"b">>, regex |-> NoRegex],
     [pattern |-> <<"a", "b", " ", "3", "4">>, regex |-> NoRegex],
     [pattern |-> <<"x", "b">>, regex |-> [literal |-> <<"a", "b">>]],
     [pattern |-> <<"/", "u">>, regex |-> NoRegex]}

\* min_confidence: 0, the default 0.30, 0.85.
Thresholds == {Frac(0, 1), Frac(3, 10), Frac(17, 20)}

FixIdle ==
    fixm = [pc |-> "idle", error_text |-> <<>>, fixes |-> <<>>,
            min_confidence |-> Frac(0, 1), matches |-> <<>>]

FixInit ==
    \E error_text \in ErrorTexts, fixes \in SeqsUpTo(FixEntries, MaxFixes),
       min_confidence \in Thresholds :
        fixm = [pc |-> "input", error_text |-> error_text, fixes |-> fixes,
                min_confidence |-> min_confidence, matches |-> <<>>]

\* One call of lp_fix_match_all.
FixMatchAll ==
    /\ fixm.pc = "input"
    /\ \E matches \in lp_fix_match_all(fixm.error_text, fixm.fixes, fixm.min_confidence) :
          fixm' = [fixm EXCEPT !.pc = "done", !.matches = matches]

(***************************************************************************)
(* score.c: lp_score_segment                                               *)
(***************************************************************************)
\* Lines 16-22.
TypeScore(type) ==
    IF type = LP_SEG_ERROR THEN 10
    ELSE IF type = LP_SEG_WARNING THEN 5
    ELSE IF type = LP_SEG_DATA THEN 4
    ELSE IF type = LP_SEG_PHASE THEN 2
    ELSE 0

\* Lines 25-37: +1 for every (line, block trigger) match; the profiles of the
\* model have no keywords and no extra keywords are given (lines 40-45).
TriggerScore(seg_lines, m) ==
    IF m.is_null THEN 0
    ELSE Cardinality({<<i, k>> \in (1..Len(seg_lines)) \X (1..Len(m.block_triggers)) :
                         lp_str_contains_ci(seg_lines[i], m.block_triggers[k])})

\* sorted[i]->count for the array lp_dedup_sorted returns: the counts of the
\* occupied buckets B in non-increasing order, whatever the order qsort gives
\* equal counts.
RECURSIVE CountsDesc(_, _)
CountsDesc(t, B) ==
    IF B = {} THEN <<>>
    ELSE LET k == CHOOSE i \in B : \A j \in B : t.buckets[j].count <= t.buckets[i].count
         IN  <<t.buckets[k].count>> \o CountsDesc(t, B \ {k})

\* Lines 63-72: the probe that compares hashes only; the count found, or 0.
RECURSIVE HashLookup(_, _, _)
HashLookup(t, idx, h) ==
    IF ~t.buckets[idx].occupied THEN 0
    ELSE IF t.buckets[idx].hash = h THEN t.buckets[idx].count
    ELSE HashLookup(t, (idx + 1) % t.capacity, h)

\* Lines 52-56: the counts at the two percentile positions of sorted.
PercentileCounts(counts) ==
    LET n == Len(counts)
        top5_threshold_idx == n \div 20
    IN  [top5_count |-> counts[(IF top5_threshold_idx < n THEN top5_threshold_idx ELSE 0) + 1],
         bot5_count |-> counts[(n - n \div 20 - 1) + 1]]

\* Lines 66-68: the bonus of a line found with count c (c = 0: not found).
OutlierBonus(c, top5_count, bot5_count) ==
    (IF c > 0 /\ c >= top5_count /\ top5_count > 1 THEN 2 ELSE 0)
    + (IF c > 0 /\ c <= bot5_count /\ c = 1 THEN 2 ELSE 0)

\* Lines 58-73: the bonus of one line, looked up by the hash h of its text.
LineBonus(t, h, pc) == OutlierBonus(HashLookup(t, h % t.capacity, h), pc.top5_count, pc.bot5_count)

RECURSIVE BonusFrom(_, _, _, _)
BonusFrom(seg_lines, i, t, pc) ==
    IF i > Len(seg_lines) THEN 0
    ELSE LineBonus(t, lp_fnv1a(seg_lines[i]), pc) + BonusFrom(seg_lines, i + 1, t, pc)

\* Lines 47-76: the frequency outlier bonus.
FrequencyScore(seg_lines, t) ==
    IF t.count = 0 THEN 0
    ELSE BonusFrom(seg_lines, 1, t,
             PercentileCounts(CountsDesc(t, {b \in 0..(t.capacity - 1) : t.buckets[b].occupied})))

lp_score_segment(seg, ls, m, t) ==
    LET seg_lines == Slice(ls, seg.start_line, seg.end_line + 1)
    IN  TypeScore(seg.type) + TriggerScore(seg_lines, m) + FrequencyScore(seg_lines, t)

lp_score_all(sg, ls, m, t) ==
    [k \in 1..Len(sg) |-> [sg[k] EXCEPT !.score = lp_score_segment(sg[k], ls, m, t)]]

(***************************************************************************)
(* logparse.c: output_text                                                 *)
(***************************************************************************)
\* Lines 378-383: the texts of build-system wrapper lines.
WrapperTexts ==
    {<<"n", "i", "n", "j", "a", ":", " ", "b", "u", "i", "l", "d", " ", "s", "t", "o", "p", "p", "e", "d">>,
     <<"F", "A", "T", "A", "L", " ", "E", "R", "R", "O", "R", ":">>,
     <<"_", "s", "y", "s", "b", "u", "i", "l", "d", "/", "s", "y", "s", "b", "u", "i", "l", "d", "/", "i", "m", "a", "g", "e", "s", "/">>,
     <<"c", "m", "d", ".", "e", "x", "e", " ", "/", "C">>,
     <<"c", "m", "a", "k", "e", ".", "e", "x", "e", " ", "-", "-", "b", "u", "i", "l", "d">>,
     <<"c", "m", "a", "k", "e", ".", "E", "X", "E">>}

\* Lines 520-525: the texts of lines the summary already shows.
SummarizedTexts ==
    {<<"F", "L", "A", "S", "H", ":">>,
     <<"R", "A", "M", ":">>,
     <<"I", "D", "T", "_", "L", "I", "S", "T", ":">>,
     <<"U", "s", "e", "d", " ", "S", "i", "z", "e">>,
     <<"M", "e", "m", "o", "r", "y", " ", "r", "e", "g", "i", "o", "n">>,
     <<"W", "r", "o", "t", "e", " ">>,
     <<"C", "o", "n", "v", "e", "r", "t", "e", "d", " ", "t", "o", " ", "u", "f", "2">>,
     <<"G", "e", "n", "e", "r", "a", "t", "i", "n", "g", " ", "f", "i", "l", "e", "s", " ", "f", "r", "o", "m">>,
     <<"m", "e", "r", "g", "e", "d", ".", "h", "e", "x">>}

SegLines(seg, ls) == Slice(ls, seg.start_line, seg.end_line + 1)

\* Lines 373-389.
is_wrapper_error(seg, ls) ==
    /\ seg.type = LP_SEG_ERROR
    /\ \A l \in 1..Len(SegLines(seg, ls)) :
          \E w \in WrapperTexts : lp_str_contains(SegLines(seg, ls)[l], w)

\* Lines 514-532: every line is blank, boilerplate, build progress, or holds
\* a text of the summary.
all_summarized(seg, ls, m) ==
    \A l \in 1..Len(SegLines(seg, ls)) :
        LET ln == SegLines(seg, ls)[l]
        IN  \/ lp_is_blank(ln)
            \/ lp_is_boilerplate(ln, m)
            \/ \E s \in SummarizedTexts : lp_str_contains(ln, s)
            \/ lp_is_build_progress(ln)

\* A segment loop without the score test of line 512.
SegmentSkipped_no_score_test(seg, ls, m) ==
    \/ seg.type \in {LP_SEG_BUILD_PROGRESS, LP_SEG_BOILERPLATE}
    \/ is_wrapper_error(seg, ls)
    \/ /\ seg.type \notin {LP_SEG_ERROR, LP_SEG_WARNING}
       /\ all_summarized(seg, ls, m)

\* Lines 502-533: the tests that make the segment loop `continue`.
SegmentSkipped(seg, ls, m) ==
    \/ seg.type \in {LP_SEG_BUILD_PROGRESS, LP_SEG_BOILERPLATE}
    \/ is_wrapper_error(seg, ls)
    \/ /\ seg.type \notin {LP_SEG_ERROR, LP_SEG_WARNING}
       /\ \/ seg.score < 3
          \/ all_summarized(seg, ls, m)

\* Lines 550-561: the probe for (hash of the raw line, the raw line); the
\* bucket it stops at and the dup_count it leaves.
RECURSIVE OutputLookup(_, _, _, _)
OutputLookup(t, idx, h, line) ==
    IF ~t.buckets[idx].occupied THEN [idx |-> idx, dup_count |-> 1]
    ELSE IF t.buckets[idx].hash = h /\ t.buckets[idx].original = line
    THEN [idx |-> idx, dup_count |-> t.buckets[idx].count]
    ELSE OutputLookup(t, (idx + 1) % t.capacity, h, line)

\* Lines 563-567: what is printed for a line, given the probe's result.  A
\* printed line is [line_num, text, times], times > 1 for "[xN] text".
PrintLine(t, line, line_num, found) ==
    IF found.dup_count > 1 /\ line_num = t.buckets[found.idx].first_line
    THEN <<[line_num |-> line_num, text |-> line, times |-> found.dup_count]>>
    ELSE IF found.dup_count <= 1
    THEN <<[line_num |-> line_num, text |-> line, times |-> 1]>>
    ELSE <<>>

\* Lines 550-561, from the hash h of the line.
OutputLine(t, line, line_num, h) ==
    PrintLine(t, line, line_num, OutputLookup(t, h % t.capacity, h, line))

\* Lines 539-568: the lines printed for one segment, from line l of it.
RECURSIVE PrintedFrom(_, _, _, _, _)
PrintedFrom(seg, ls, m, t, l) ==
    IF l >= seg.end_line - seg.start_line + 1 THEN <<>>
    ELSE LET line == At(ls, seg.start_line + l)
             rest == PrintedFrom(seg, ls, m, t, l + 1)
         IN  IF lp_is_build_progress(line) THEN rest
             ELSE IF lp_is_boilerplate(line, m) THEN rest
             ELSE IF seg.type \notin {LP_SEG_ERROR, LP_SEG_WARNING} /\ lp_is_blank(line) THEN rest
             ELSE OutputLine(t, line, seg.start_line + l, lp_fnv1a(line)) \o rest

\* Lines 498-570: the segment blocks of the digest, from packed entry b.  A
\* block is the header "[type] lines a-b" with the lines printed under it.
RECURSIVE OutputSegments(_, _, _, _, _, _)
OutputSegments(sg, ls, m, t, indices, b) ==
    IF b > Len(indices) THEN <<>>
    ELSE LET si == indices[b]
             seg == At(sg, si)
             rest == OutputSegments(sg, ls, m, t, indices, b + 1)
         IN  IF SegmentSkipped(seg, ls, m) THEN rest
             ELSE <<[si |-> si, type |-> seg.type,
                     first |-> seg.start_line + 1, last |-> seg.end_line + 1,
                     printed |-> PrintedFrom(seg, ls, m, t, 0)]>> \o rest

output_text(sg, ls, m, t, budget) == OutputSegments(sg, ls, m, t, budget.indices, 1)

(***************************************************************************)
(* segment.c: lp_is_compiler_command and lp_line_fate                      *)
(***************************************************************************)
\* segment.h: lp_fate, in enumeration order.
LP_FATE_KEEP == 0
LP_FATE_KEEP_ONCE == 1
LP_FATE_DROP == 2

\* Line 87.
COMMAND_MIN_LEN == 300

\* Lines 89-93.
CompilerTexts ==
    {<<"g", "c", "c">>,
     <<"g", "+", "+">>,
     <<"c", "l", "a", "n", "g">>,
     <<"c", "l", ".", "e", "x", "e">>,
     <<"/", "c", "c", " ">>,
     <<"/", "l", "d", " ">>,
     <<"a", "r", "m", "-", "z", "e", "p", "h", "y", "r", "-", "e", "a", "b", "i">>,
     <<"a", "r", "m", "-", "n", "o", "n", "e", "-", "e", "a", "b", "i">>,
     <<"x", "t", "e", "n", "s", "a", "-">>,
     <<"r", "i", "s", "c", "v">>}

\* Lines 95-97.
FlagTexts ==
    {<<" ", "-", "D">>,
     <<" ", "-", "I">>,
     <<" ", "-", "f">>,
     <<" ", "-", "W">>,
     <<" ", "/", "D">>,
     <<" ", "/", "I">>}

\* Lines 83-102.
lp_is_compiler_command(line) ==
    IF Len(line) < COMMAND_MIN_LEN THEN FALSE
    ELSE /\ \E c \in CompilerTexts : lp_str_contains(line, c)
         /\ \E f \in FlagTexts : lp_str_contains(line, f)

\* lp_line_fate with the drop rules tried before the error and warning rules.
lp_line_fate_drop_first(line, m) ==
    IF lp_is_blank(line) THEN LP_FATE_DROP
    ELSE IF ~m.is_null /\ \E i \in 1..Len(m.drop_contains) :
                           lp_str_contains(line, m.drop_contains[i])
    THEN LP_FATE_DROP
    ELSE IF ~m.is_null /\ lp_is_boilerplate(line, m) THEN LP_FATE_DROP
    ELSE IF GenericError(line) THEN LP_FATE_KEEP
    ELSE IF GenericWarning(line) THEN LP_FATE_KEEP
    ELSE IF ~m.is_null /\ \E i \in 1..Len(m.error_patterns) :
                           lp_str_contains_ci(line, m.error_patterns[i])
    THEN LP_FATE_KEEP
    ELSE IF ~m.is_null /\ \E i \in 1..Len(m.warning_patterns) :
                           lp_str_contains_ci(line, m.warning_patterns[i])
    THEN LP_FATE_KEEP
    ELSE IF ~m.is_null /\ \E i \in 1..Len(m.keep_once_contains) :
                           lp_str_contains(line, m.keep_once_contains[i])
    THEN LP_FATE_KEEP_ONCE
    ELSE IF lp_is_build_progress(line) THEN LP_FATE_DROP
    ELSE IF lp_is_compiler_command(line) THEN LP_FATE_DROP
    ELSE LP_FATE_KEEP

\* Lines 141-187 (the line is never a null pointer in the model).
lp_line_fate(line, m) ==
    IF lp_is_blank(line) THEN LP_FATE_DROP
    ELSE IF GenericError(line) THEN LP_FATE_KEEP
    ELSE IF GenericWarning(line) THEN LP_FATE_KEEP
    ELSE IF ~m.is_null /\ \E i \in 1..Len(m.error_patterns) :
                           lp_str_contains_ci(line, m.error_patterns[i])
    THEN LP_FATE_KEEP
    ELSE IF ~m.is_null /\ \E i \in 1..Len(m.warning_patterns) :
                           lp_str_contains_ci(line, m.warning_patterns[i])
    THEN LP_FATE_KEEP
    ELSE IF ~m.is_null /\ \E i \in 1..Len(m.drop_contains) :
                           lp_str_contains(line, m.drop_contains[i])
    THEN LP_FATE_DROP
    ELSE IF ~m.is_null /\ lp_is_boilerplate(line, m) THEN LP_FATE_DROP
    ELSE IF ~m.is_null /\ \E i \in 1..Len(m.keep_once_contains) :
                           lp_str_contains(line, m.keep_once_contains[i])
    THEN LP_FATE_KEEP_ONCE
    ELSE IF lp_is_build_progress(line) THEN LP_FATE_DROP
    ELSE IF lp_is_compiler_command(line) THEN LP_FATE_DROP
    ELSE LP_FATE_KEEP

\* text followed by as many "x" as make it n characters long.
Pad(text, n) == text \o [i \in 1..(n - Len(text)) |-> "x"]

L_spaces == <<" ", " ", "\t">>
L_skip == <<"s", "k", "i", "p", " ", "m", "e">>
L_once == <<"o", "n", "c", "e", " ", "x">>
L_skip_once == <<"s", "k", "i", "p", " ", "o", "n", "c", "e">>
L_skip_error == <<"s", "k", "i", "p", " ", "e", "r", "r", "o", "r", ":", " ", "y">>
L_gcc == <<"g", "c", "c", " ", "-", "D", "x", " ", "-", "c", " ", "a", ".", "c", " ">>
L_gcc_noflag == <<"g", "c", "c", " ", "a", ".", "c", " ">>
L_gcc_warning == <<"g", "c", "c", " ", "-", "D", "x", " ", "w", "a", "r", "n", "i", "n", "g", ":", " ", "y", " ">>

\* The lines lp_line_fate is called on: blank ones, diagnostics, lines of the
\* drop and keep-once lists, progress lines, and compiler commands of 299
\* and 300 characters.
FateLines ==
    {L_blank, L_spaces, L_error, L_warning, L_indented, L_config, L_note,
     L_skip, L_once, L_skip_once, L_skip_error, L_progress, L_progress_error,
     L_gcc, Pad(L_gcc, COMMAND_MIN_LEN - 1), Pad(L_gcc, COMMAND_MIN_LEN),
     Pad(L_gcc_noflag, COMMAND_MIN_LEN), Pad(L_gcc_warning, COMMAND_MIN_LEN)}

\* The fields of struct lp_mode that only lp_line_fate reads.
FateLists ==
    {[drop_contains |-> <<>>, keep_once_contains |-> <<>>],
     [drop_contains |-> << <<"s", "k", "i", "p">> >>,
      keep_once_contains |-> << <<"o", "n", "c", "e">> >>],
     [drop_contains |-> << <<"b", "a", "d">>, <<"[", "1", "/">> >>,
      keep_once_contains |-> << <<"g", "c", "c">>, <<"-", "-">> >>]}

FateModes ==
    {NULL @@ [drop_contains |-> <<>>, keep_once_contains |-> <<>>]}
    \cup {m @@ f : m \in {PlainMode, BuildMode}, f \in FateLists}

FateIdle == fatecall = [pc |-> "idle", line |-> <<>>, mode |-> NULL, fate |-> 0]

FateInit ==
    \E line \in FateLines, m \in FateModes :
        fatecall = [pc |-> "input", line |-> line, mode |-> m, fate |-> 0]

\* One call of lp_line_fate.
LineFate ==
    /\ fatecall.pc = "input"
    /\ fatecall' = [fatecall EXCEPT !.pc = "done",
                                    !.fate = lp_line_fate(fatecall.line, fatecall.mode)]

(***************************************************************************)
(* token.c: calls of lp_estimate_tokens and lp_estimate_tokens_lines       *)
(***************************************************************************)
MaxTokLines == 2

RECURSIVE TokLineLists(_)
TokLineLists(n) ==
    IF n = 0 THEN {<<>>}
    ELSE LET shorter == TokLineLists(n - 1)
         IN  shorter \cup {<<x>> \o t : x \in TokTexts, t \in {u \in shorter : Len(u) = n - 1}}

\* The lines one after the other, as one string.
RECURSIVE Concat(_)
Concat(ls) == IF ls = <<>> THEN <<>> ELSE Head(ls) \o Concat(Tail(ls))

TokIdle ==
    tokcall = [pc |-> "idle", lines |-> <<>>, text |-> <<>>, text_tokens |-> 0, lines_tokens |-> 0]

TokInit ==
    \E ls \in TokLineLists(MaxTokLines) :
        tokcall = [pc |-> "input", lines |-> ls, text |-> Concat(ls),
                   text_tokens |-> 0, lines_tokens |-> 0]

\* lp_estimate_tokens(text, strlen(text)).
EstimateTokens ==
    /\ tokcall.pc = "input"
    /\ tokcall' = [tokcall EXCEPT !.pc = "text",
                                  !.text_tokens = lp_estimate_tokens(tokcall.text)]

\* lp_estimate_tokens_lines(lines, count).
EstimateTokensLines ==
    /\ tokcall.pc = "text"
    /\ tokcall' = [tokcall EXCEPT !.pc = "done",
                                  !.lines_tokens = lp_estimate_tokens_lines(tokcall.lines)]

(***************************************************************************)
(* fix.c: calls of lcs_length                                              *)
(***************************************************************************)
MaxLcsLen == 3
LcsChars == {"a", "b"}

RECURSIVE LcsTextsUpTo(_)
LcsTextsUpTo(n) ==
    IF n = 0 THEN {<<>>}
    ELSE LET shorter == LcsTextsUpTo(n - 1)
         IN  shorter \cup {<<c>> \o t : c \in LcsChars, t \in {u \in shorter : Len(u) = n - 1}}

LcsIdle == lcscall = [pc |-> "idle", a |-> <<>>, b |-> <<>>, ab |-> 0, ba |-> 0]

LcsInit ==
    \E a \in LcsTextsUpTo(MaxLcsLen), b \in LcsTextsUpTo(MaxLcsLen) :
        lcscall = [pc |-> "input", a |-> a, b |-> b, ab |-> 0, ba |-> 0]

\* fix.c:354: lcs_length(a, alen, b, blen) ...
LcsForward ==
    /\ lcscall.pc = "input"
    /\ lcscall' = [lcscall EXCEPT !.pc = "forward",
                                  !.ab = lcs_length(lcscall.a, lcscall.b)]

\* ... and the call with the arguments exchanged.
LcsBackward ==
    /\ lcscall.pc = "forward"
    /\ lcscall' = [lcscall EXCEPT !.pc = "done",
                                  !.ba = lcs_length(lcscall.b, lcscall.a)]

PureIdle == FateIdle /\ TokIdle /\ LcsIdle

RenderIdle == digest = [done |-> FALSE, blocks |-> <<>>]

CallIdle == NormIdle /\ DetectIdle /\ FixIdle /\ RenderIdle /\ PureIdle

InitSegment == SegInit /\ PackIdle /\ DedupIdle /\ CallIdle

NextSegment == SegmentDetect /\ UNCHANGED <<packVars, dedupVars, callVars>>

SpecSegment == InitSegment /\ [][NextSegment]_vars

InitBudget == SegIdle /\ PackInit /\ DedupIdle /\ CallIdle

NextBudget == BudgetPack /\ UNCHANGED <<segVars, dedupVars, callVars>>

SpecBudget == InitBudget /\ [][NextBudget]_vars

InitDedup == SegIdle /\ PackIdle /\ DedupInit /\ CallIdle

NextDedup == (InsertFresh \/ InsertRepeat) /\ UNCHANGED <<segVars, packVars, freq, callVars>>

SpecDedup == InitDedup /\ [][NextDedup]_vars

NextFreq ==
    /\ \/ /\ ~freq.done
          /\ ninserts < MaxSortLines
          /\ (InsertFresh \/ InsertRepeat)
          /\ UNCHANGED freq
       \/ DedupSorted
    /\ UNCHANGED <<segVars, packVars, callVars>>

SpecFreq == InitDedup /\ [][NextFreq]_vars

(***************************************************************************)
(* logparse.c main: dedup of every line, then segment detection            *)
(***************************************************************************)
\* Lines 745-751: the strip patterns of the active mode (BuildMode strips
\* numbers, PlainMode has none), none without a mode.
ModeStripPatterns(m) ==
    IF m.is_null THEN <<>>
    ELSE IF m = BuildMode THEN <<DigitRun>>
    ELSE <<>>

PipelineVocab == {L_warning, L_error, L_blank}

\* An input with zero lines ends the program before this point.
PipelineLogs == UNION {[1..n -> PipelineVocab] : n \in 1..MaxLines}

\* Lines 754-755: lp_dedup_init(&dedup, la.count / 2 + 64).
PipelineInit ==
    /\ lines \in PipelineLogs
    /\ mode \in ModeSet
    /\ segs = <<>>
    /\ seg_pc = "input"
    /\ table = lp_dedup_init(Len(lines) \div 2 + MinCapacity)
    /\ ninserts = 0
    /\ last_line = <<>>
    /\ feed = [order |-> [start |-> 0, stride |-> 1], strip |-> ModeStripPatterns(mode),
               fresh |-> 0, repeats |-> 0]
    /\ freq = [done |-> FALSE, arr |-> <<>>]

\* Lines 756-758: lp_dedup_insert(&dedup, la.lines[i], i, strip_pats, strip_count).
PipelineInsert ==
    /\ seg_pc = "input"
    /\ ninserts < Len(lines)
    /\ table' = lp_dedup_insert(table, At(lines, ninserts), ninserts, feed.strip)
    /\ last_line' = At(lines, ninserts)
    /\ ninserts' = ninserts + 1
    /\ UNCHANGED <<segVars, feed, freq>>

\* Line 762: lp_segment_detect, after the last line is inserted.
PipelineSegment ==
    /\ ninserts = Len(lines)
    /\ SegmentDetect
    /\ UNCHANGED dedupVars

InitPipeline == PipelineInit /\ PackIdle /\ CallIdle

NextPipeline == (PipelineInsert \/ PipelineSegment) /\ UNCHANGED <<packVars, callVars>>

SpecPipeline == InitPipeline /\ [][NextPipeline]_vars

(***************************************************************************)
(* logparse.c main: the whole run, from the loaded lines to the digest     *)
(***************************************************************************)
RenderVocab == {L_error, L_note, L_fatal, L_flash, L_blank}

RenderLogs == UNION {[1..n -> RenderVocab] : n \in 1..MaxLines}

\* The run has no mode profile (no mode file is loaded, lines 726-743).
RenderModes == {NULL}

\* args.budget_lines * 10 for --budget 0 and --budget 200.
RenderBudgets == {0, 2000}

\* Line 781.
RESERVE_TOKENS == 200

RenderInit ==
    /\ lines \in RenderLogs
    /\ mode \in RenderModes
    /\ segs = <<>>
    /\ seg_pc = "input"
    /\ table = lp_dedup_init(Len(lines) \div 2 + MinCapacity)
    /\ ninserts = 0
    /\ last_line = <<>>
    /\ feed = [order |-> [start |-> 0, stride |-> 1], strip |-> ModeStripPatterns(mode),
               fresh |-> 0, repeats |-> 0]
    /\ freq = [done |-> FALSE, arr |-> <<>>]
    /\ bsegs = <<>>
    /\ budget_tokens \in RenderBudgets
    /\ reserve_tokens = RESERVE_TOKENS
    /\ result = [indices |-> <<>>, count |-> 0, total_tokens |-> 0, budget_tokens |-> 0]
    /\ cand_order = <<>>
    /\ pack_pc = "input"

\* Lines 754-758.
RenderInsert == PipelineInsert /\ UNCHANGED <<packVars, callVars>>

\* Lines 760-764.
RenderSegment == PipelineSegment /\ UNCHANGED <<packVars, callVars>>

\* Lines 766-784: lp_score_all writes the scores into the segments, then
\* lp_budget_pack selects among them.
RenderScorePack ==
    /\ seg_pc = "done"
    /\ pack_pc = "input"
    /\ \E scored \in {lp_score_all(segs, lines, mode, table)} :
          /\ segs' = scored
          /\ bsegs' = scored
          /\ \E sorted \in QsortByScore(Candidates(scored, 0)) :
                /\ cand_order' = sorted
                /\ result' = lp_budget_pack(scored, budget_tokens, reserve_tokens, sorted)
    /\ pack_pc' = "done"
    /\ UNCHANGED <<lines, mode, seg_pc, budget_tokens, reserve_tokens, dedupVars, callVars>>

\* Lines 790-793: output_text.
RenderOutput ==
    /\ pack_pc = "done"
    /\ ~digest.done
    /\ digest' = [done |-> TRUE, blocks |-> output_text(segs, lines, mode, table, result)]
    /\ UNCHANGED <<segVars, packVars, dedupVars, normcall, detect, fixm, pureVars>>

InitRender == RenderInit /\ CallIdle

NextRender == RenderInsert \/ RenderSegment \/ RenderScorePack \/ RenderOutput

SpecRender == InitRender /\ [][NextRender]_vars

InitNormalize ==
    SegIdle /\ PackIdle /\ DedupIdle /\ NormInit /\ DetectIdle /\ FixIdle /\ RenderIdle /\ PureIdle

NextNormalize ==
    (Normalize \/ NormalizeAgain) /\ UNCHANGED <<segVars, packVars, dedupVars, detect, fixm, digest, pureVars>>

InitDetect ==
    SegIdle /\ PackIdle /\ DedupIdle /\ NormIdle /\ DetectInit /\ FixIdle /\ RenderIdle /\ PureIdle

NextDetect ==
    ModeDetect /\ UNCHANGED <<segVars, packVars, dedupVars, normcall, fixm, digest, pureVars>>

InitFix ==
    SegIdle /\ PackIdle /\ DedupIdle /\ NormIdle /\ DetectIdle /\ FixInit /\ RenderIdle /\ PureIdle

NextFix ==
    FixMatchAll /\ UNCHANGED <<segVars, packVars, dedupVars, normcall, detect, digest, pureVars>>

SpecFix == InitFix /\ [][NextFix]_vars

SpecDetect == InitDetect /\ [][NextDetect]_vars

SpecNormalize == InitNormalize /\ [][NextNormalize]_vars

InitFate ==
    SegIdle /\ PackIdle /\ DedupIdle /\ NormIdle /\ DetectIdle /\ FixIdle /\ RenderIdle
    /\ FateInit /\ TokIdle /\ LcsIdle

NextFate ==
    LineFate /\ UNCHANGED <<segVars, packVars, dedupVars, normcall, detect, fixm, digest,
                            tokcall, lcscall>>

SpecFate == InitFate /\ [][NextFate]_vars

InitTokens ==
    SegIdle /\ PackIdle /\ DedupIdle /\ NormIdle /\ DetectIdle /\ FixIdle /\ RenderIdle
    /\ FateIdle /\ TokInit /\ LcsIdle

NextTokens ==
    (EstimateTokens \/ EstimateTokensLines)
    /\ UNCHANGED <<segVars, packVars, dedupVars, normcall, detect, fixm, digest,
                   fatecall, lcscall>>

SpecTokens == InitTokens /\ [][NextTokens]_vars

InitLcs ==
    SegIdle /\ PackIdle /\ DedupIdle /\ NormIdle /\ DetectIdle /\ FixIdle /\ RenderIdle
    /\ FateIdle /\ TokIdle /\ LcsInit

NextLcs ==
    (LcsForward \/ LcsBackward)
    /\ UNCHANGED <<segVars, packVars, dedupVars, normcall, detect, fixm, digest,
                   fatecall, tokcall>>

SpecLcs == InitLcs /\ [][NextLcs]_vars

(***************************************************************************)
(* Segmenter properties                                                    *)
(***************************************************************************)
LineOrdinals == 0..(Len(lines) - 1)

SegsCovering(i) == {k \in 1..Len(segs) : segs[k].start_line <= i /\ i <= segs[k].end_line}

\* C2: every non-blank line ordinal lies in the range of exactly one returned
\* segment, and a non-blank line that follows a segment's last line directly
\* (a line the inner walk broke at) is the first line of a segment.
C2_EveryNonBlankLineInOneSegment ==
    seg_pc = "done" =>
        /\ \A i \in LineOrdinals :
              ~Facts(At(lines, i), mode).blank => Cardinality(SegsCovering(i)) = 1
        /\ \A k \in 1..Len(segs) :
              LET nxt == segs[k].end_line + 1
              IN  (nxt < Len(lines) /\ ~Facts(At(lines, nxt), mode).blank)
                      => \E k2 \in 1..Len(segs) : segs[k2].start_line = nxt

\* The walk broke at a block trigger after three lines, and at build progress
\* after an error: both lines start the next segment.
C2_Witness ==
    /\ seg_pc = "done"
    /\ \E k \in 2..Len(segs) :
          /\ segs[k].start_line = segs[k - 1].end_line + 1
          /\ segs[k - 1].line_count = 3
          /\ Facts(At(lines, segs[k].start_line), mode).trigger

\* C3: the returned segments are non-empty ranges, strictly ordered and
\* non-overlapping, and line_count = end_line - start_line + 1.
C3_SegmentsOrderedDisjoint ==
    seg_pc = "done" =>
        /\ \A k \in 1..Len(segs) :
              /\ segs[k].start_line <= segs[k].end_line
              /\ segs[k].line_count = segs[k].end_line - segs[k].start_line + 1
              /\ segs[k].end_line < Len(lines)
        /\ \A k \in 1..(Len(segs) - 1) : segs[k].end_line < segs[k + 1].start_line

\* Three segments: the second follows the first directly, the third comes
\* after a blank line.
C3_Witness ==
    /\ seg_pc = "done"
    /\ Len(segs) = 3
    /\ segs[2].start_line = segs[1].end_line + 1
    /\ segs[3].start_line > segs[2].end_line + 1

SegShape(ss) ==
    [k \in 1..Len(ss) |-> <<ss[k].type, ss[k].start_line, ss[k].end_line>>]

MixedProgressError == <<L_progress, L_error, L_progress2, L_progress3>>

\* C8: within a returned segment no build-progress line classified NORMAL
\* comes after a line classified ERROR; the four lines "[1/3] Building a",
\* "error: bad thing", "[2/3] Building b", "[3/3] Building c" give
\* BUILD_PROGRESS (line 1), ERROR (line 2), BUILD_PROGRESS (lines 3-4).
C8_NoProgressAbsorbedAfterError ==
    /\ seg_pc = "done" =>
          \A k \in 1..Len(segs) :
              \A i, j \in segs[k].start_line..segs[k].end_line :
                  ~ /\ i < j
                    /\ Facts(At(lines, i), mode).class = LP_SEG_ERROR
                    /\ Facts(At(lines, j), mode).progress
                    /\ Facts(At(lines, j), mode).class = LP_SEG_NORMAL
    /\ SegShape(lp_segment_detect(MixedProgressError, NULL))
          = << <<LP_SEG_BUILD_PROGRESS, 0, 0>>, <<LP_SEG_ERROR, 1, 1>>,
               <<LP_SEG_BUILD_PROGRESS, 2, 3>> >>

\* Progress, an error, then two progress lines: the error stands alone and
\* the trailing progress is a segment of its own.
C8_Witness ==
    /\ seg_pc = "done"
    /\ lines = <<L_progress, L_error, L_progress, L_progress>>
    /\ SegShape(segs) = << <<LP_SEG_BUILD_PROGRESS, 0, 0>>, <<LP_SEG_ERROR, 1, 1>>,
                           <<LP_SEG_BUILD_PROGRESS, 2, 3>> >>

(***************************************************************************)
(* Budget packer properties                                                *)
(***************************************************************************)
SegIndices == 0..(Len(bsegs) - 1)

Packed == {result.indices[k] : k \in 1..result.count}

ErrorIndices == {i \in SegIndices : bsegs[i + 1].type = LP_SEG_ERROR}

RECURSIVE TokenSum(_)
TokenSum(S) ==
    IF S = {} THEN 0
    ELSE LET i == CHOOSE x \in S : TRUE
         IN  bsegs[i + 1].token_count + TokenSum(S \ {i})

ErrorSegment1000 == [type |-> LP_SEG_ERROR, token_count |-> 1000, score |-> 10]

\* C1: whatever the budget and the reserve, the index of every ERROR segment
\* is in result.indices; two ERROR segments of 1000 tokens with budget 500 and
\* reserve 0 give count 2 and total_tokens 2000.
C1_ErrorsAlwaysPacked ==
    pack_pc = "done" =>
        /\ result.count = Len(result.indices)
        /\ ErrorIndices \subseteq Packed
        /\ (/\ bsegs = <<ErrorSegment1000, ErrorSegment1000>>
            /\ budget_tokens = 500
            /\ reserve_tokens = 0)
              => (result.count = 2 /\ result.total_tokens = 2000)

\* The two 1000-token errors against a budget of 500 have been packed.
C1_Witness ==
    /\ pack_pc = "done"
    /\ bsegs = <<ErrorSegment1000, ErrorSegment1000>>
    /\ budget_tokens = 500
    /\ reserve_tokens = 0
    /\ result.indices = <<0, 1>>

\* C5: total_tokens is the token sum of the included segments plus the
\* reserve, and total_tokens - reserve <= available + the amount by which the
\* ERROR segments' token sum exceeds available (0 if it does not), with
\* available = max(0, budget_tokens - reserve_tokens).
C5_TokenBound ==
    pack_pc = "done" =>
        LET available == IF budget_tokens - reserve_tokens > 0
                         THEN budget_tokens - reserve_tokens ELSE 0
            errors == TokenSum(ErrorIndices)
            excess == IF errors > available THEN errors - available ELSE 0
        IN  /\ result.total_tokens = TokenSum(Packed) + reserve_tokens
            /\ result.total_tokens - reserve_tokens <= available + excess
            /\ errors <= available => result.total_tokens - reserve_tokens <= available

\* The errors fit, a non-error segment was added to them and another one was
\* turned away, with a non-zero reserve held back.
C5_Witness ==
    /\ pack_pc = "done"
    /\ reserve_tokens > 0
    /\ ErrorIndices # {}
    /\ TokenSum(ErrorIndices) <= budget_tokens - reserve_tokens
    /\ Packed \ ErrorIndices # {}
    /\ SegIndices \ Packed # {}

\* C6: result.indices[0..count-1] is strictly increasing, every index is below
\* seg_count and count <= seg_count, whatever order the candidates were
\* selected in.
C6_IndicesStrictlyIncreasing ==
    pack_pc = "done" =>
        /\ result.count = Len(result.indices)
        /\ \A k \in 1..(result.count - 1) : result.indices[k] < result.indices[k + 1]
        /\ \A k \in 1..result.count : result.indices[k] \in SegIndices
        /\ result.count <= Len(bsegs)

\* Two candidates were selected in the opposite of their array order, after an
\* error segment that lies behind both.
C6_Witness ==
    /\ pack_pc = "done"
    /\ Len(cand_order) = 2
    /\ cand_order[1].idx > cand_order[2].idx
    /\ {cand_order[1].idx, cand_order[2].idx} \subseteq Packed
    /\ \E e \in ErrorIndices : e > cand_order[1].idx

\* The candidates in descending score order, equal scores in array order.
RECURSIVE InsertStable(_, _)
InsertStable(c, sorted) ==
    IF sorted = <<>> THEN <<c>>
    ELSE IF Head(sorted).score > c.score
         THEN <<Head(sorted)>> \o InsertStable(c, Tail(sorted))
         ELSE <<c>> \o sorted

RECURSIVE StableByScore(_, _)
StableByScore(cands, k) ==
    IF k > Len(cands) THEN <<>>
    ELSE InsertStable(cands[k], StableByScore(cands, k + 1))

\* C7: Phase B considers the non-error segments in descending score order with
\* ties kept in original array order, and includes each iff it fits at its
\* turn; a segment that does not fit is skipped and later ones are still tried.
C7_PhaseBStableGreedy ==
    pack_pc = "done" =>
        result = lp_budget_pack(bsegs, budget_tokens, reserve_tokens,
                                StableByScore(Candidates(bsegs, 0), 1))

(***************************************************************************)
(* Dedup table properties                                                  *)
(***************************************************************************)
Occupied(t) == {b \in DOMAIN t.buckets : t.buckets[b].occupied}

Entries(t) == {t.buckets[b] : b \in Occupied(t)}

RECURSIVE CountSum(_, _)
CountSum(t, B) ==
    IF B = {} THEN 0
    ELSE LET b == CHOOSE x \in B : TRUE
         IN  t.buckets[b].count + CountSum(t, B \ {b})

\* C4: after n calls of lp_dedup_insert, across resizes, the counts of the
\* occupied buckets sum to n and table.count is the number of occupied buckets.
C4_CountsSumToInserts ==
    /\ CountSum(table, Occupied(table)) = ninserts
    /\ table.count = Cardinality(Occupied(table))

\* The table has been resized and holds a line that was inserted three times.
C4_Witness ==
    /\ table.capacity = 2 * MinCapacity
    /\ ninserts = table.count + 2
    /\ \E b \in Occupied(table) : table.buckets[b].count = 3

\* The entry lp_dedup_insert creates for a line not in the table.
NewEntry(line, line_num, strip_patterns) ==
    [occupied |-> TRUE,
     hash |-> lp_fnv1a(lp_normalize_line(line, strip_patterns)),
     normalized |-> lp_normalize_line(line, strip_patterns),
     original |-> line,
     first_line |-> line_num,
     count |-> 1]

\* C9: an insert of a line whose normalized form is in the table adds 1 to
\* that entry's count and changes no other field of any entry nor
\* table.count, also when it resizes the table; an insert of a line whose
\* normalized form is not in the table adds the entry (normalized, the given
\* text, the given line number, count 1) and changes no other entry.
C9_InsertFrame ==
    [][ninserts' = ninserts + 1 =>
          LET norm == lp_normalize_line(last_line', feed.strip)
              before == Entries(table)
              after == Entries(table')
              found == {e \in before : e.normalized = norm}
          IN  IF found # {}
              THEN /\ Cardinality(found) = 1
                   /\ after = (before \ found) \cup {[e EXCEPT !.count = @ + 1] : e \in found}
                   /\ table'.count = table.count
              ELSE /\ after = before \cup {NewEntry(last_line', ninserts, feed.strip)}
                   /\ table'.count = table.count + 1]_vars

\* A repeated line, spelled unlike its first occurrence, was the insert that
\* resized the table: the table has doubled and still holds the 45 entries it
\* had, the repeated one with count 2 and its first text.
C9_Witness ==
    /\ table.capacity = 2 * MinCapacity
    /\ table.count * 10 = MinCapacity * 7 + 2
    /\ \E b \in Occupied(table) :
          /\ table.buckets[b].count = 2
          /\ table.buckets[b].normalized = lp_normalize_line(last_line, feed.strip)
          /\ table.buckets[b].original # last_line
          /\ table.buckets[b].first_line < ninserts - 1

RECURSIVE IsPow2(_)
IsPow2(n) == n = 1 \/ (n > 1 /\ n % 2 = 0 /\ IsPow2(n \div 2))

\* C10: in every state reachable by lp_dedup_init and lp_dedup_insert calls,
\* count * 10 <= capacity * 7, and capacity is a power of two >= 64.
C10_LoadFactorAtMost70 ==
    /\ table.count * 10 <= table.capacity * 7
    /\ IsPow2(table.capacity)
    /\ table.capacity >= MinCapacity

\* C10 as amended: the load is tested before the line is inserted, so between
\* inserts the table holds at most one entry more than 0.7 * capacity:
\* (count - 1) * 10 <= capacity * 7; capacity is a power of two >= 64 and an
\* insert leaves it unchanged or doubles it.
C10_LoadFactorBeforeInsert ==
    /\ [](/\ (table.count - 1) * 10 <= table.capacity * 7
          /\ IsPow2(table.capacity)
          /\ table.capacity >= MinCapacity)
    /\ [][table'.capacity = table.capacity \/ table'.capacity = 2 * table.capacity]_vars

\* The table passed 0.7 * 64 entries and has doubled.
C10_Witness ==
    /\ table.capacity = 2 * MinCapacity
    /\ table.count * 10 > MinCapacity * 7

\* Entries of equal count stand in the order of their first insertion.
FirstSeenOrder(arr) ==
    \A a, b \in 1..Len(arr) :
        (a < b /\ arr[a].count = arr[b].count) => arr[a].first_line < arr[b].first_line

\* C11: lp_dedup_sorted returns every occupied entry exactly once, in
\* non-increasing order of count, entries of equal count in ascending
\* first_line.
C11_SortedStableByCount ==
    freq.done =>
        /\ Len(freq.arr) = Cardinality(Entries(table))
        /\ Range(freq.arr) = Entries(table)
        /\ \A a, b \in 1..Len(freq.arr) : a < b => freq.arr[a].count >= freq.arr[b].count
        /\ FirstSeenOrder(freq.arr)

(***************************************************************************)
(* Normalizer properties                                                   *)
(***************************************************************************)
\* C12: lp_normalize_line is idempotent: normalizing the normalized line with
\* the same ordered strip patterns gives the normalized line again.
C12_NormalizeIdempotent ==
    normcall.pc = "twice" => normcall.twice = normcall.once

(***************************************************************************)
(* Mode detection properties                                               *)
(***************************************************************************)
\* The number of (line, signature) pairs of profile m where the line contains
\* the signature.
PairScore(m) ==
    Cardinality({<<l, sg>> \in (1..Len(detect.first_lines)) \X (1..Len(detect.modes[m].signatures)) :
                    lp_str_contains(detect.first_lines[l], detect.modes[m].signatures[sg])})

\* C13: lp_mode_detect returns the name of the profile with the highest pair
\* score, the earliest loaded among those with the highest score, and
\* "generic" when no profile scores above 0.
C13_ModeDetectHighestScore ==
    detect.pc = "done" =>
        LET M == 1..Len(detect.modes)
        IN  IF \A m \in M : PairScore(m) = 0
            THEN detect.name = "generic"
            ELSE \E m \in M :
                    /\ detect.name = detect.modes[m].name
                    /\ \A k \in M : PairScore(k) <= PairScore(m)
                    /\ \A k \in M : k < m => PairScore(k) < PairScore(m)

\* Two profiles with unlike signature lists tie at a score of 2, and the
\* first loaded is returned.
C13_Witness ==
    /\ detect.pc = "done"
    /\ Len(detect.modes) = 2
    /\ PairScore(1) = 2
    /\ PairScore(2) = 2
    /\ detect.modes[1].signatures # detect.modes[2].signatures
    /\ detect.name = detect.modes[1].name

(***************************************************************************)
(* Fix matching properties                                                 *)
(***************************************************************************)
FracEq(x, y) == x.num * y.den = y.num * x.den

\* The length of the longest text that starts at a[i] and at b[j].
RECURSIVE CommonAt(_, _, _, _)
CommonAt(a, b, i, j) ==
    IF i <= Len(a) /\ j <= Len(b) /\ a[i] = b[j] THEN 1 + CommonAt(a, b, i + 1, j + 1) ELSE 0

LongestCommonSubstring(a, b) ==
    Max({0} \cup {CommonAt(a, b, i, j) : i \in 1..Len(a), j \in 1..Len(b)})

\* The confidence the rules give: 0.9 for a regex that matches the raw error
\* text, else 0.85 for a pattern the raw error text contains whatever the
\* case, else L / max(|norm_err|, |norm_pat|), read as 0 when both normalized
\* texts are empty.
RuleConfidence(error_text, fix) ==
    LET norm_err == normalize_for_match(error_text)
        norm_pat == normalize_for_match(fix.pattern)
        longer == IF Len(norm_err) > Len(norm_pat) THEN Len(norm_err) ELSE Len(norm_pat)
    IN  IF fix.regex.literal # <<>> /\ re_matchp(fix.regex, error_text).match_idx >= 0
        THEN Frac(9, 10)
        ELSE IF \E i \in 0..(Len(error_text) - Len(fix.pattern)) :
                   \A j \in 1..Len(fix.pattern) :
                       tolower(error_text[i + j]) = tolower(fix.pattern[j])
        THEN Frac(17, 20)
        ELSE IF longer = 0 THEN Frac(0, 1)
        ELSE Frac(LongestCommonSubstring(norm_err, norm_pat), longer)

\* C14: the confidence lp_fix_match_all gives an entry is 0.9 if its regex
\* is non-empty and matches the raw error text, otherwise 0.85 if the raw
\* error text contains its pattern case-insensitively, otherwise
\* L / max(|norm_err|, |norm_pat|); every confidence is within [0, 1].  With
\* min_confidence 0 every entry is in the result.
C14_ConfidenceRules ==
    fixm.pc = "done" =>
        /\ \A k \in 1..Len(fixm.matches) :
              LET conf == fixm.matches[k].confidence
              IN  /\ FracEq(conf, RuleConfidence(fixm.error_text,
                                                 fixm.fixes[fixm.matches[k].fix + 1]))
                  /\ conf.den > 0
                  /\ 0 <= conf.num
                  /\ conf.num <= conf.den
        /\ fixm.min_confidence.num = 0 =>
              {fixm.matches[k].fix : k \in 1..Len(fixm.matches)} = 0..(Len(fixm.fixes) - 1)

\* "ab 12" matched against an entry whose regex matches (0.9) and an entry
\* whose pattern "ab 34" it meets only after normalization (4/4).
C14_Witness ==
    /\ fixm.pc = "done"
    /\ fixm.error_text = <<"a", "b", " ", "1", "2">>
    /\ Len(fixm.matches) = 2
    /\ fixm.matches[1].confidence = Frac(4, 4)
    /\ fixm.matches[2].confidence = Frac(9, 10)
    /\ fixm.fixes[fixm.matches[1].fix + 1].regex = NoRegex
    /\ ~lp_str_contains_ci(fixm.error_text, fixm.fixes[fixm.matches[1].fix + 1].pattern)

\* C15: the result holds exactly the entries whose confidence is >=
\* min_confidence, each once, in non-increasing order of confidence, entries
\* of equal confidence in their order in the fix array.
C15_MatchesStableByConfidence ==
    fixm.pc = "done" =>
        /\ {fixm.matches[k].fix : k \in 1..Len(fixm.matches)} =
              {i \in 0..(Len(fixm.fixes) - 1) :
                  ~FracLess(FixConfidence(fixm.error_text, fixm.fixes[i + 1]),
                            fixm.min_confidence)}
        /\ \A a, b \in 1..Len(fixm.matches) :
              a < b =>
                 /\ fixm.matches[a].fix # fixm.matches[b].fix
                 /\ ~FracLess(fixm.matches[a].confidence, fixm.matches[b].confidence)
                 /\ FracEq(fixm.matches[a].confidence, fixm.matches[b].confidence)
                       => fixm.matches[a].fix < fixm.matches[b].fix

\* C16: the error text "undefined reference to 'foo_bar' in /path/x.o"
\* matched against an entry with the pattern "undefined reference to foo_bar"
\* and no regex gives that entry a confidence >= 0.85.
C16_UndefinedReferenceScenario ==
    (/\ fixm.pc = "done"
     /\ fixm.error_text = E_undef
     /\ fixm.fixes = <<[pattern |-> P_undef, regex |-> NoRegex]>>
     /\ fixm.min_confidence = Frac(0, 1))
    => /\ Len(fixm.matches) = 1
       /\ ~FracLess(fixm.matches[1].confidence, Frac(17, 20))

(***************************************************************************)
(* Segmenter scenarios                                                     *)
(***************************************************************************)
\* C17: with no mode profile, five non-indented two-column lines between two
\* blank lines come back as exactly one segment, of type DATA.
C17_TabularBlockIsData ==
    (seg_pc = "done" /\ lines = TabularBlock /\ mode = NULL)
    => /\ Len(segs) = 1
       /\ segs[1].type = LP_SEG_DATA

\* C18: with no mode profile, three lines "warning: foo" give a dedup table
\* with one entry (count 3, first_line 0, original "warning: foo") and one
\* segment, of type WARNING, with start_line 0 and end_line 2.
C18_ThreeWarnings ==
    (seg_pc = "done" /\ lines = <<L_warning, L_warning, L_warning>> /\ mode = NULL)
    => /\ table.count = 1
       /\ \E e \in Entries(table) :
             /\ Entries(table) = {e}
             /\ e.count = 3
             /\ e.first_line = 0
             /\ e.original = L_warning
       /\ SegShape(segs) = << <<LP_SEG_WARNING, 0, 2>> >>

\* The three warning lines have been through dedup and the segmenter.
C18_Witness ==
    /\ seg_pc = "done"
    /\ lines = <<L_warning, L_warning, L_warning>>
    /\ mode = NULL
    /\ ninserts = 3
    /\ Len(segs) = 1

(***************************************************************************)
(* Text renderer                                                           *)
(***************************************************************************)
\* Segment si has a block in the digest.
EmittedSegment(si) == \E k \in 1..Len(digest.blocks) : digest.blocks[k].si = si

\* The three exclusions the renderer is stated to have.
StatedExclusion(seg) ==
    \/ seg.type \in {LP_SEG_BUILD_PROGRESS, LP_SEG_BOILERPLATE}
    \/ is_wrapper_error(seg, lines)
    \/ /\ seg.type \in {LP_SEG_NORMAL, LP_SEG_DATA, LP_SEG_INFO, LP_SEG_PHASE}
       /\ all_summarized(seg, lines, mode)

\* C19: the text renderer emits every packed segment except those of type
\* BUILD_PROGRESS or BOILERPLATE, wrapper-error segments, and NORMAL, DATA,
\* INFO or PHASE segments all of whose content is summarized or boilerplate;
\* nothing else (such as the score) removes a packed segment.
C19_PackedSegmentsEmitted ==
    digest.done
    => \A b \in 1..Len(result.indices) :
          EmittedSegment(result.indices[b]) <=> ~StatedExclusion(At(segs, result.indices[b]))

\* The printed lines of the digest before line l of block k, and at it.
PrintedUpTo(k, line_num) ==
    UNION {{digest.blocks[j].printed[i] : i \in 1..Len(digest.blocks[j].printed)} :
              j \in 1..(k - 1)} \cup
    {digest.blocks[k].printed[i] : i \in {x \in 1..Len(digest.blocks[k].printed) :
                                            digest.blocks[k].printed[x].line_num <= line_num}}

\* C20: a non-progress, non-boilerplate line of an emitted segment is left
\* out only if the same line was printed, annotated with its count, earlier
\* in the digest; it is never left out because its first occurrence lies in
\* a segment that is not packed or not emitted.
C20_OnlyLaterDuplicatesSuppressed ==
    digest.done
    => \A k \in 1..Len(digest.blocks) :
          \A line_num \in (digest.blocks[k].first - 1)..(digest.blocks[k].last - 1) :
             LET line == At(lines, line_num)
             IN  (~lp_is_build_progress(line) /\ ~lp_is_boilerplate(line, mode))
                 => \/ \E p \in PrintedUpTo(k, line_num) : p.line_num = line_num
                    \/ \E p \in PrintedUpTo(k, line_num) :
                          /\ p.line_num < line_num
                          /\ p.text = line
                          /\ p.times > 1

\* C19, as the code has it: a packed segment is emitted unless one of the
\* three exclusions holds or it is a NORMAL, DATA, INFO or PHASE segment with
\* a score below 3.
C19_PackedSegmentsEmittedUnlessLowScore ==
    digest.done
    => \A b \in 1..Len(result.indices) :
          LET seg == At(segs, result.indices[b])
          IN  EmittedSegment(result.indices[b])
              <=> ~(\/ StatedExclusion(seg)
                    \/ /\ seg.type \in {LP_SEG_NORMAL, LP_SEG_DATA, LP_SEG_INFO, LP_SEG_PHASE}
                       /\ seg.score < 3)

\* The digest of a run that packed a low-scoring NORMAL segment with content
\* of its own, which has no block, and a NORMAL segment that has one.
C19_Witness ==
    /\ digest.done
    /\ \E b \in 1..Len(result.indices) :
          LET seg == At(segs, result.indices[b])
          IN  /\ seg.type = LP_SEG_NORMAL
              /\ seg.score < 3
              /\ ~all_summarized(seg, lines, mode)
              /\ ~EmittedSegment(result.indices[b])
    /\ \E b \in 1..Len(result.indices) :
          /\ At(segs, result.indices[b]).type = LP_SEG_NORMAL
          /\ EmittedSegment(result.indices[b])

(***************************************************************************)
(* Line fate                                                               *)
(***************************************************************************)
MatchesAny(line, patterns) ==
    \E i \in 1..Len(patterns) : lp_str_contains(line, patterns[i])

\* The line classification of the segmenter marks the line ERROR or WARNING.
ClassifiedDiagnostic(line, m) == classify_line(line, m) \in {LP_SEG_ERROR, LP_SEG_WARNING}

\* C21: the fate of a line is decided by the first rule that matches, in the
\* order blank -> DROP, error or warning -> KEEP, drop_contains or
\* boilerplate -> DROP, keep_once_contains -> KEEP_ONCE, build progress ->
\* DROP, long compiler command -> DROP, else KEEP; so a non-blank line the
\* segmenter classifies ERROR or WARNING is always KEEP.
C21_FatePrecedence ==
    fatecall.pc = "done"
    => LET line == fatecall.line
           m == fatecall.mode
       IN  /\ fatecall.fate =
                 (IF lp_is_blank(line) THEN LP_FATE_DROP
                  ELSE IF ClassifiedDiagnostic(line, m) THEN LP_FATE_KEEP
                  ELSE IF ~m.is_null /\ (MatchesAny(line, m.drop_contains)
                                         \/ MatchesAny(line, m.boilerplate_patterns))
                  THEN LP_FATE_DROP
                  ELSE IF ~m.is_null /\ MatchesAny(line, m.keep_once_contains)
                  THEN LP_FATE_KEEP_ONCE
                  ELSE IF lp_is_build_progress(line) THEN LP_FATE_DROP
                  ELSE IF lp_is_compiler_command(line) THEN LP_FATE_DROP
                  ELSE LP_FATE_KEEP)
           /\ (~lp_is_blank(line) /\ ClassifiedDiagnostic(line, m))
                 => fatecall.fate = LP_FATE_KEEP

\* The fate of a diagnostic line that also matches a drop pattern.
C21_Witness ==
    /\ fatecall.pc = "done"
    /\ ClassifiedDiagnostic(fatecall.line, fatecall.mode)
    /\ ~fatecall.mode.is_null
    /\ MatchesAny(fatecall.line, fatecall.mode.drop_contains)
    /\ fatecall.fate = LP_FATE_KEEP

(***************************************************************************)
(* Token estimates                                                         *)
(***************************************************************************)
\* The least k with k * d >= x.
CeilDiv(x, d) == CHOOSE k \in 0..x : k * d >= x /\ (k = 0 \/ (k - 1) * d < x)

\* The greatest k with k * d <= x.
FloorDiv(x, d) == CHOOSE k \in 0..x : k * d <= x /\ (k + 1) * d > x

NonWhitespace(text) == Cardinality({i \in 1..Len(text) : text[i] # " "})

\* 7 * ceil(W / 4) + 3 * ceil(L / 4) + 5 for the text.
Blend(text) == 7 * CeilDiv(NonWhitespace(text), 4) + 3 * CeilDiv(Len(text), 4) + 5

\* C22: for a string of length L with W non-whitespace bytes,
\* lp_estimate_tokens returns ceil((7*ceil(W/4) + 3*ceil(L/4) + 5) / 10).
C22_TokensCeiling ==
    tokcall.pc \in {"text", "done"}
    => tokcall.text_tokens = CeilDiv(Blend(tokcall.text), 10)

\* C22, as the code has it: the result is floor((7*ceil(W/4) + 3*ceil(L/4)
\* + 5) / 10), the blend divided by ten and rounded to the nearest.
C22_TokensRounded ==
    tokcall.pc \in {"text", "done"}
    => tokcall.text_tokens = FloorDiv(Blend(tokcall.text), 10)

\* An estimate of a text of more than four bytes, spaces among them.
C22_Witness ==
    /\ tokcall.pc = "text"
    /\ Len(tokcall.text) > 4
    /\ NonWhitespace(tokcall.text) \in 1..4
    /\ tokcall.text_tokens = 1

RECURSIVE SumOfEstimates(_, _)
SumOfEstimates(ls, i) ==
    IF i > Len(ls) THEN 0
    ELSE FloorDiv(Blend(ls[i]), 10) + SumOfEstimates(ls, i + 1)

\* C23: the estimate of a list of lines is the estimate of their
\* concatenation plus the number of lines.
C23_LinesEqualConcatPlusNewlines ==
    tokcall.pc = "done"
    => tokcall.lines_tokens = tokcall.text_tokens + Len(tokcall.lines)

\* C23, as the code has it: the estimate of a list of lines is the sum of
\* the estimates of the lines, each rounded on its own, plus the number of
\* lines.
C23_LinesSumPlusNewlines ==
    tokcall.pc = "done"
    => tokcall.lines_tokens = SumOfEstimates(tokcall.lines, 1) + Len(tokcall.lines)

\* Two lines whose estimates do not add up to the estimate of their
\* concatenation.
C23_Witness ==
    /\ tokcall.pc = "done"
    /\ Len(tokcall.lines) = 2
    /\ tokcall.lines_tokens # tokcall.text_tokens + 2

(***************************************************************************)
(* Segment types                                                           *)
(***************************************************************************)
SegOrdinals(k) == segs[k].start_line..segs[k].end_line

HasErrorLine(k) ==
    \E i \in SegOrdinals(k) : Facts(At(lines, i), mode).class = LP_SEG_ERROR

\* C24: every line that the line classification marks ERROR lies in a
\* returned segment whose type is ERROR: neither the build-progress handling
\* nor post-classification leaves it in a segment of another type.
C24_ErrorLinesInErrorSegments ==
    seg_pc = "done" =>
        \A i \in LineOrdinals :
            Facts(At(lines, i), mode).class = LP_SEG_ERROR
            => \E k \in 1..Len(segs) : i \in SegOrdinals(k) /\ segs[k].type = LP_SEG_ERROR

\* A build-progress line that is itself an error starts an ERROR segment, and
\* an error line ends the build-progress segment before it.
C24_Witness ==
    /\ seg_pc = "done"
    /\ \E k \in 1..Len(segs) :
          /\ Facts(At(lines, segs[k].start_line), mode).progress
          /\ Facts(At(lines, segs[k].start_line), mode).class = LP_SEG_ERROR
          /\ segs[k].type = LP_SEG_ERROR
    /\ \E k \in 2..Len(segs) :
          /\ segs[k - 1].type = LP_SEG_BUILD_PROGRESS
          /\ segs[k].start_line = segs[k - 1].end_line + 1
          /\ segs[k].type = LP_SEG_ERROR
          /\ ~Facts(At(lines, segs[k].start_line), mode).progress

\* C25: a line classified ERROR makes the segment ERROR whatever its type,
\* and a line classified WARNING makes a NORMAL segment WARNING, the first
\* line of the segment included: a segment with no ERROR line whose first
\* line is neither a phase marker nor build progress and which has a WARNING
\* line, be it its first or its only line, has type WARNING.
C25_WarningPromotion ==
    seg_pc = "done" =>
        \A k \in 1..Len(segs) :
            /\ HasErrorLine(k) => segs[k].type = LP_SEG_ERROR
            /\ ( /\ ~HasErrorLine(k)
                 /\ ~Facts(At(lines, segs[k].start_line), mode).phase
                 /\ ~Facts(At(lines, segs[k].start_line), mode).progress
                 /\ \E i \in SegOrdinals(k) :
                       Facts(At(lines, i), mode).class = LP_SEG_WARNING )
               => segs[k].type = LP_SEG_WARNING

\* C26: a segment whose first line matches a phase marker of the mode and
\* which has no line classified ERROR is returned with type PHASE, and a
\* phase-marker line is always the first line of its segment.
C26_PhaseSegments ==
    seg_pc = "done" =>
        \A k \in 1..Len(segs) :
            /\ (Facts(At(lines, segs[k].start_line), mode).phase /\ ~HasErrorLine(k))
               => segs[k].type = LP_SEG_PHASE
            /\ \A i \in SegOrdinals(k) :
                  Facts(At(lines, i), mode).phase => i = segs[k].start_line

\* The type the line walk of lines 291-369 leaves segment k with.
WalkType(k) ==
    LET first == At(lines, segs[k].start_line)
    IN  ExtendSegment(lines, mode, segs[k].start_line, Facts(first, mode).indent,
                      segs[k].start_line + 1, FirstLineType(first, mode),
                      Facts(first, mode).class = LP_SEG_ERROR).seg_type

HalfOrMore(k, field) ==
    2 * Cardinality({i \in SegOrdinals(k) : Facts(At(lines, i), mode)[field]})
        >= segs[k].line_count

\* The type post-classification gives segment k when the walk left type w.
PostClassified(k, w) ==
    IF w # LP_SEG_NORMAL THEN w
    ELSE IF HalfOrMore(k, "boilerplate") THEN LP_SEG_BOILERPLATE
    ELSE IF HalfOrMore(k, "progress") THEN LP_SEG_BUILD_PROGRESS
    ELSE IF lp_is_tabular(Slice(lines, segs[k].start_line, segs[k].end_line + 1))
         THEN LP_SEG_DATA
    ELSE LP_SEG_NORMAL

\* C27: post-classification changes the type only of a segment the walk left
\* NORMAL (the walk never leaves DATA): it becomes BOILERPLATE if at least
\* half of its lines are boilerplate, else BUILD_PROGRESS if at least half
\* are build progress, else DATA if the slice is tabular, else it stays
\* NORMAL; a segment the walk typed ERROR, WARNING, PHASE or BUILD_PROGRESS
\* keeps that type.
C27_PostClassification ==
    seg_pc = "done" =>
        \A k \in 1..Len(segs) :
            \E w \in {WalkType(k)} :
                /\ w \in {LP_SEG_ERROR, LP_SEG_WARNING, LP_SEG_PHASE,
                          LP_SEG_BUILD_PROGRESS, LP_SEG_NORMAL}
                /\ segs[k].type = PostClassified(k, w)

\* A WARNING segment half of whose lines are boilerplate keeps its type and
\* the NORMAL segment after it becomes BUILD_PROGRESS.
C27_Witness ==
    /\ seg_pc = "done"
    /\ \E k \in 1..Len(segs) :
          /\ segs[k].type = LP_SEG_WARNING
          /\ HalfOrMore(k, "boilerplate")
    /\ \E k \in 1..Len(segs) :
          /\ WalkType(k) = LP_SEG_NORMAL
          /\ segs[k].type = LP_SEG_BUILD_PROGRESS

(***************************************************************************)
(* Dedup table probing                                                     *)
(***************************************************************************)
\* The buckets linear probing visits from bucket home up to bucket b.
ProbePath(t, home, b) ==
    {(home + d) % t.capacity : d \in 0..((b - home) % t.capacity)}

\* No two buckets of occ hold the same normalized text, and every entry of
\* occ is reached from its home bucket over occupied buckets none of which
\* matches its (hash, normalized).
ProbeIntegrity(t, occ) ==
    /\ Cardinality({t.buckets[b].normalized : b \in occ}) = Cardinality(occ)
    /\ \A b \in occ :
          /\ t.buckets[b].hash = lp_fnv1a(t.buckets[b].normalized)
          /\ \A c \in ProbePath(t, t.buckets[b].hash % t.capacity, b) :
                /\ t.buckets[c].occupied
                /\ c # b => ~ /\ t.buckets[c].hash = t.buckets[b].hash
                              /\ t.buckets[c].normalized = t.buckets[b].normalized

\* C28: no two occupied buckets hold the same normalized text, and every
\* occupied entry is reached from its home bucket hash & (capacity - 1) by
\* linear probing over occupied buckets only, so that the probe of an insert
\* of the same normalized text ends at the entry.
C28_ProbeIntegrity == ProbeIntegrity(table, Occupied(table))

\* The table has been resized, holds an entry away from its home bucket, and
\* a repeat of that entry's line has found it.
C28_Witness ==
    /\ table.capacity = 2 * MinCapacity
    /\ \E b \in Occupied(table) :
          /\ table.buckets[b].hash % table.capacity # b
          /\ table.buckets[b].count > 1

\* C29: after lp_dedup_init and any inserts the table has count < capacity
\* and at least one unoccupied bucket, so a linear probe from any bucket, for
\* any text, ends at a matching or an unoccupied bucket within capacity
\* steps.
C29_AlwaysAFreeBucket ==
    /\ table.count < table.capacity
    /\ \E b \in DOMAIN table.buckets : ~table.buckets[b].occupied
    /\ \A home \in DOMAIN table.buckets :
          \E d \in 0..(table.capacity - 1) :
              ~table.buckets[(home + d) % table.capacity].occupied

\* The table at its fullest: one entry past 0.7 * capacity, before the
\* insert that resizes it.
C29_Witness ==
    /\ table.capacity = MinCapacity
    /\ NeedsGrow(table)
    /\ Cardinality(Occupied(table)) = table.count

(***************************************************************************)
(* lcs_length                                                              *)
(***************************************************************************)
\* a occurs in b as a contiguous run.
IsSubstring(a, b) ==
    \E s \in 0..(Len(b) - Len(a)) : \A k \in 1..Len(a) : b[s + k] = a[k]

\* C30: lcs_length(a, b) is the length of the longest contiguous text common
\* to a and b: 0 when either is empty or they share no character, at most
\* min(|a|, |b|), |a| when a is a substring of b, and the same for (b, a).
C30_LongestCommonSubstring ==
    lcscall.pc = "done" =>
        LET a == lcscall.a
            b == lcscall.b
        IN  /\ lcscall.ab = LongestCommonSubstring(a, b)
            /\ (a = <<>> \/ b = <<>>) => lcscall.ab = 0
            /\ (\A i \in 1..Len(a), j \in 1..Len(b) : a[i] # b[j]) => lcscall.ab = 0
            /\ lcscall.ab <= Len(a) /\ lcscall.ab <= Len(b)
            /\ IsSubstring(a, b) => lcscall.ab = Len(a)
            /\ lcscall.ab = lcscall.ba

\* Two texts whose longest common subsequence is longer than their longest
\* common contiguous text.
C30_Witness ==
    /\ lcscall.pc = "done"
    /\ lcscall.a = <<"a", "b", "a">>
    /\ lcscall.b = <<"a", "a">>
    /\ lcscall.ab = 1
    /\ lcscall.ba = 1
====
